---- MODULE Spec2Model ----
(***************************************************************************)
(* A model of cobra/io/sbml.py: the identifier codec, the notes codec, the *)
(* annotation codec, the bound/parameter manager, and the writer           *)
(* (_model_to_sbml) and reader (_sbml_to_model) that use them.             *)
(*                                                                         *)
(* A string is a sequence of atoms.  Identifiers and notes markup are      *)
(* sequences of one-character strings; annotation strings are sequences    *)
(* whose atoms are "/" or a chunk of text that holds no "/".               *)
(***************************************************************************)
EXTENDS Integers, Sequences, FiniteSets, TLC

VARIABLES
    pc,             \* which operation has run: the phase of the specification
    f_replace,      \* the identifier codec configuration of write and read
    cobra_model,    \* the in-memory model handed to the writer
    doc,            \* the SBML document the writer produced
    read_model,     \* the result of reading doc back
    id_in,          \* identifier codec: the identifier given
    id_kind,        \* identifier codec: "gene", "specie" or "reaction"
    id_cur,         \* identifier codec: the identifier after the operations applied
    id_ops,         \* identifier codec: the operations applied so far
    notes,          \* notes codec: the element's notes string
    notes_dict,     \* notes codec: the mapping _parse_notes_dict returned
    annotation,     \* annotation codec: the caller's annotation mapping
    sbase,          \* annotation codec: the element serialized to
    parsed,         \* annotation codec: the mapping _parse_annotations returned
    association,    \* gene associations: the association tree of a reaction
    gpr_str,        \* gene associations: the string process_association returned
    source,         \* entry points: the file handed to read or validate
    result          \* entry points: what the call returned or raised

vars == <<pc, f_replace, cobra_model, doc, read_model, id_in, id_kind, id_cur, id_ops,
          notes, notes_dict, annotation, sbase, parsed, association, gpr_str,
          source, result>>

modelVars == <<f_replace, cobra_model, doc, read_model>>
idVars    == <<id_in, id_kind, id_cur, id_ops>>
notesVars == <<notes, notes_dict>>
annotVars == <<annotation, sbase, parsed>>
gprVars   == <<association, gpr_str>>
apiVars   == <<source, result>>

(***************************************************************************)
(* Python string helpers                                                   *)
(***************************************************************************)
None == "None"

\* None where a string is expected: no string of the model holds this atom
NoneStr == <<None>>

\* None where a number is expected; a number n is held as <<n>>
NoneInt == <<>>

startswith(s, prefix) ==
    Len(s) >= Len(prefix) /\ SubSeq(s, 1, Len(prefix)) = prefix

\* str.replace(old, new): leftmost, non-overlapping occurrences of old
RECURSIVE replace(_, _, _)
replace(s, old, new) ==
    IF Len(s) < Len(old) THEN s
    ELSE IF SubSeq(s, 1, Len(old)) = old
         THEN new \o replace(SubSeq(s, Len(old) + 1, Len(s)), old, new)
         ELSE <<Head(s)>> \o replace(Tail(s), old, new)

\* whether old occurs in s
RECURSIVE contains(_, _)
contains(s, old) ==
    IF Len(s) < Len(old) THEN FALSE
    ELSE SubSeq(s, 1, Len(old)) = old \/ contains(Tail(s), old)

\* the concatenation of a sequence of strings
RECURSIVE concat(_)
concat(ss) == IF ss = <<>> THEN <<>> ELSE Head(ss) \o concat(Tail(ss))

(***************************************************************************)
(* Functions for id replacements (import/export)                           *)
(***************************************************************************)
SBML_DOT == <<"_", "_", "S", "B", "M", "L", "_", "D", "O", "T", "_", "_">>
DOT == <<".">>

G_PREFIX == <<"G", "_">>
M_PREFIX == <<"M", "_">>
R_PREFIX == <<"R", "_">>

\* a clip that is off by one and leaves the prefix's last character
clip_off_by_one(sid, prefix) ==
    IF startswith(sid, prefix) THEN SubSeq(sid, Len(prefix), Len(sid)) ELSE sid

_clip(sid, prefix) ==
    IF startswith(sid, prefix) THEN SubSeq(sid, Len(prefix) + 1, Len(sid)) ELSE sid

\* a codec that forgets to put the dots back
f_gene_no_unescape(sid) == _clip(sid, G_PREFIX)

_f_gene(sid) == _clip(replace(sid, SBML_DOT, DOT), G_PREFIX)

_f_gene_rev(sid) == G_PREFIX \o replace(sid, DOT, SBML_DOT)

_f_specie(sid) == _clip(sid, M_PREFIX)

_f_specie_rev(sid) == M_PREFIX \o sid

_f_reaction(sid) == _clip(sid, R_PREFIX)

_f_reaction_rev(sid) == R_PREFIX \o sid

F_GENE == "F_GENE"
F_GENE_REV == "F_GENE_REV"
F_SPECIE == "F_SPECIE"
F_SPECIE_REV == "F_SPECIE_REV"
F_REACTION == "F_REACTION"
F_REACTION_REV == "F_REACTION_REV"

\* the default configuration: the keys of the dictionary of six functions
F_REPLACE == {F_GENE, F_GENE_REV, F_SPECIE, F_SPECIE_REV, F_REACTION, F_REACTION_REV}

\* f_replace[key](sid)
call(key, sid) ==
    CASE key = F_GENE         -> _f_gene(sid)
      [] key = F_GENE_REV     -> _f_gene_rev(sid)
      [] key = F_SPECIE       -> _f_specie(sid)
      [] key = F_SPECIE_REV   -> _f_specie_rev(sid)
      [] key = F_REACTION     -> _f_reaction(sid)
      [] key = F_REACTION_REV -> _f_reaction_rev(sid)

\* "if f_replace and KEY in f_replace: sid = f_replace[KEY](sid)"
f_apply(f_rep, key, sid) ==
    IF f_rep # {} /\ key \in f_rep THEN call(key, sid) ELSE sid

Kinds == {"gene", "specie", "reaction"}

prefix_of(kind) ==
    CASE kind = "gene" -> G_PREFIX [] kind = "specie" -> M_PREFIX [] kind = "reaction" -> R_PREFIX

\* strip(id, kind): the forward function of the kind
strip(sid, kind) ==
    CASE kind = "gene"     -> call(F_GENE, sid)
      [] kind = "specie"   -> call(F_SPECIE, sid)
      [] kind = "reaction" -> call(F_REACTION, sid)

\* restore(id, kind): the reverse function of the kind
restore(sid, kind) ==
    CASE kind = "gene"     -> call(F_GENE_REV, sid)
      [] kind = "specie"   -> call(F_SPECIE_REV, sid)
      [] kind = "reaction" -> call(F_REACTION_REV, sid)

(***************************************************************************)
(* The identifier codec's specification: an identifier is drawn, then      *)
(* strip and restore are applied to it, in either order.                   *)
(***************************************************************************)
MaxPieces == 3
MaxIdOps == 2

IdPieces == {G_PREFIX, M_PREFIX, R_PREFIX, <<"a">>, DOT, SBML_DOT, <<"G">>, <<"_">>}

IdInputs ==
    {concat(ps) : ps \in UNION {[1..n -> IdPieces] : n \in 1..MaxPieces}}

NoModel == [status |-> "none"]
NoDoc == [status |-> "none"]

IdleModel ==
    f_replace = {} /\ cobra_model = NoModel /\ doc = NoDoc /\ read_model = NoModel
IdleIds == id_in = <<>> /\ id_kind = None /\ id_cur = <<>> /\ id_ops = <<>>
IdleNotes == notes = <<>> /\ notes_dict = None
IdleAnnot == annotation = <<>> /\ sbase = None /\ parsed = None
IdleGpr == association = None /\ gpr_str = None
IdleApi == source = None /\ result = None

InitIds ==
    /\ pc = "ids"
    /\ id_in \in IdInputs
    /\ id_kind \in Kinds
    /\ id_cur = id_in
    /\ id_ops = <<>>
    /\ IdleModel /\ IdleNotes /\ IdleAnnot /\ IdleGpr /\ IdleApi

Strip ==
    /\ pc = "ids"
    /\ Len(id_ops) < MaxIdOps
    /\ id_cur' = strip(id_cur, id_kind)
    /\ id_ops' = Append(id_ops, "strip")
    /\ UNCHANGED <<pc, id_in, id_kind, modelVars, notesVars, annotVars, gprVars, apiVars>>

Restore ==
    /\ pc = "ids"
    /\ Len(id_ops) < MaxIdOps
    /\ id_cur' = restore(id_cur, id_kind)
    /\ id_ops' = Append(id_ops, "restore")
    /\ UNCHANGED <<pc, id_in, id_kind, modelVars, notesVars, annotVars, gprVars, apiVars>>

NextIds == Strip \/ Restore

SpecIds == InitIds /\ [][NextIds]_vars

StripRestore == <<"strip", "restore">>
StripOnly == <<"strip">>
HasPrefix == startswith(id_in, prefix_of(id_kind))

\* C7 as stated: for each kind and every id x that starts with the kind's
\* prefix, restore(strip(x, kind), kind) = x.
C7_AsStated ==
    (id_ops = StripRestore /\ HasPrefix) => id_cur = id_in

\* C7 amended: restore(strip(x, kind), kind) = x for every prefixed species
\* or reaction id x, and for every prefixed gene id x that holds no "." and
\* in which the dot placeholder does not begin at the prefix's underscore.
C7_StripRestore ==
    (/\ id_ops = StripRestore
     /\ HasPrefix
     /\ id_kind = "gene" => (~contains(id_in, DOT) /\ ~startswith(Tail(id_in), SBML_DOT)))
    => id_cur = id_in

C7_Witness ==
    /\ id_ops = StripRestore
    /\ id_kind = "gene"
    /\ HasPrefix
    /\ contains(id_in, SBML_DOT)
    /\ ~contains(id_in, DOT)
    /\ ~startswith(Tail(id_in), SBML_DOT)
    /\ id_cur = id_in

\* C8 as stated: for each kind and every id x that does not start with the
\* kind's prefix, strip(x, kind) returns x unchanged.
C8_AsStated ==
    (id_ops = StripOnly /\ ~HasPrefix) => id_cur = id_in

\* C8 amended: for an id x that does not start with the kind's prefix, strip
\* returns x unchanged for species and reactions, and for genes returns x
\* with every dot placeholder replaced by "." (x itself when x holds none).
C8_StripNoPrefix ==
    (id_ops = StripOnly /\ ~HasPrefix)
    => /\ id_kind # "gene" => id_cur = id_in
       /\ id_kind = "gene" => id_cur = replace(id_in, SBML_DOT, DOT)
       /\ ~contains(id_in, SBML_DOT) => id_cur = id_in

C8_Witness ==
    /\ id_ops = StripOnly
    /\ id_kind = "gene"
    /\ ~HasPrefix
    /\ contains(id_in, SBML_DOT)
    /\ id_cur # id_in

RestoreStrip == <<"restore", "strip">>

\* C27: write-then-read identity of identifiers: for each kind and every
\* in-memory id x, strip(restore(x, kind), kind) = x, gene ids that hold ".",
\* ids that begin with the kind's prefix and gene ids that hold the dot
\* placeholder included.
C27_WriteReadIdentity ==
    id_ops = RestoreStrip => id_cur = id_in

(***************************************************************************)
(* Notes                                                                   *)
(***************************************************************************)
UpperCase == {"A", "B", "C", "D", "E", "F", "G", "H", "I", "J", "K", "L", "M", "N", "O", "P", "Q", "R", "S", "T", "U", "V", "W", "X", "Y", "Z"}
LowerCase == {"a", "b", "c", "d", "e", "f", "g", "h", "i", "j", "k", "l", "m", "n", "o", "p", "q", "r", "s", "t", "u", "v", "w", "x", "y", "z"}
Digits == {"0", "1", "2", "3", "4", "5", "6", "7", "8", "9"}

\* \w of the pattern
WordChars == UpperCase \cup LowerCase \cup Digits \cup {"_"}

\* \s of the pattern
SpaceChars == {" ", "\n", "\t"}

is_space(c) == c \in SpaceChars

\* the characters of a key: \w and \s
KeyChars == WordChars \cup SpaceChars

\* [\w|\s] of the pattern
ValueChars == WordChars \cup SpaceChars \cup {"|"}

\* str.strip()
RECURSIVE lstrip(_)
lstrip(s) == IF s # <<>> /\ is_space(Head(s)) THEN lstrip(Tail(s)) ELSE s

RECURSIVE rstrip(_)
rstrip(s) ==
    IF s # <<>> /\ is_space(s[Len(s)]) THEN rstrip(SubSeq(s, 1, Len(s) - 1)) ELSE s

trim(s) == lstrip(rstrip(s))

\* the first index at or after i whose character is not in the class
\* (Len(s) + 1 when every character from i on is in it)
RECURSIVE run_end(_, _, _)
run_end(s, i, class) ==
    IF i <= Len(s) /\ s[i] \in class THEN run_end(s, i + 1, class) ELSE i

\* whether k, already stripped, is \w+\s*\w*: one word, or two words with
\* whitespace between them
is_key(k) ==
    LET w1 == run_end(k, 1, WordChars)
        s1 == run_end(k, w1, SpaceChars)
        w2 == run_end(k, s1, WordChars)
    IN  w1 > 1 /\ w2 = Len(k) + 1

P_OPEN == <<"<", "p", ">">>
P_CLOSE == <<"<", "/", "p", ">">>

\* One attempt of the pattern  <p>\s*(\w+\s*\w*)\s*:\s*([\w|\s]+)<  at index
\* i of s: whether it matches, the two groups stripped, and the index after
\* the match.
match_at(s, i) ==
    LET k0 == i + Len(P_OPEN)
        k1 == run_end(s, k0, KeyChars)
        v0 == k1 + 1
        v1 == run_end(s, v0, ValueChars)
        ok == /\ i + Len(P_OPEN) - 1 <= Len(s)
              /\ SubSeq(s, i, i + Len(P_OPEN) - 1) = P_OPEN
              /\ k1 <= Len(s) /\ s[k1] = ":"
              /\ is_key(trim(SubSeq(s, k0, k1 - 1)))
              /\ v1 > v0
              /\ v1 <= Len(s) /\ s[v1] = "<"
    IN  [ok |-> ok,
         k |-> IF ok THEN trim(SubSeq(s, k0, k1 - 1)) ELSE <<>>,
         v |-> IF ok THEN trim(SubSeq(s, v0, v1 - 1)) ELSE <<>>,
         end |-> v1 + 1]

\* re.findall(pattern, notes): the (key, value) pairs of the successive
\* non-overlapping matches, scanning from index i
RECURSIVE findall(_, _)
findall(s, i) ==
    IF i > Len(s) THEN <<>>
    ELSE LET m == match_at(s, i)
         IN  IF m.ok THEN <<(<<m.k, m.v>>)>> \o findall(s, m.end)
             ELSE findall(s, i + 1)

\* {k.strip(): v.strip() for (k, v) in matches}: the last match of a key wins
dict_of(matches) ==
    LET keys == {matches[j][1] : j \in 1..Len(matches)}
        last(k) == CHOOSE j \in 1..Len(matches) :
                      /\ matches[j][1] = k
                      /\ \A l \in (j + 1)..Len(matches) : matches[l][1] # k
    IN  [k \in keys |-> matches[last(k)][2]]

\* {k: v for k, v in d.items() if len(v) > 0}
drop_empty(d) == [k \in {x \in DOMAIN d : Len(d[x]) > 0} |-> d[k]]

EmptyDict == [k \in {} |-> <<>>]

_parse_notes_dict(notes_string) ==
    IF Len(notes_string) > 0
    THEN drop_empty(dict_of(findall(notes_string, 1)))
    ELSE EmptyDict

(***************************************************************************)
(* The notes codec's specification: an element's notes are written as      *)
(* paragraphs <p>key: value</p>, then parsed.                              *)
(***************************************************************************)
MaxParagraphs == 2

NoteKeys == {<<"C", "H", "A", "R", "G", "E">>, <<"F", "O", "R", "M", "U", "L", "A">>}

NoteValues == {<<"-", "2">>, <<"C", "6", "H", "1", "2", "O", "6">>, <<"2">>, <<" ">>, <<"a", "|", "b">>}

\* the markup of one paragraph
paragraph(k, v) == P_OPEN \o k \o <<":", " ">> \o v \o P_CLOSE

\* sbase.getNotesString() of an element whose notes hold the paragraphs ps
RECURSIVE getNotesString(_)
getNotesString(ps) ==
    IF ps = <<>> THEN <<>>
    ELSE paragraph(Head(ps)[1], Head(ps)[2]) \o getNotesString(Tail(ps))

InitNotes ==
    /\ pc = "notes"
    /\ notes = <<>>
    /\ notes_dict = None
    /\ IdleModel /\ IdleIds /\ IdleAnnot /\ IdleGpr /\ IdleApi

AddParagraph ==
    /\ pc = "notes"
    /\ Len(notes) < MaxParagraphs
    /\ \E k \in NoteKeys, v \in NoteValues : notes' = Append(notes, <<k, v>>)
    /\ UNCHANGED <<pc, notes_dict, modelVars, idVars, annotVars, gprVars, apiVars>>

ParseNotes ==
    /\ pc = "notes"
    /\ notes_dict' = _parse_notes_dict(getNotesString(notes))
    /\ pc' = "notes_parsed"
    /\ UNCHANGED <<notes, modelVars, idVars, annotVars, gprVars, apiVars>>

NextNotes == AddParagraph \/ ParseNotes

SpecNotes == InitNotes /\ [][NextNotes]_vars

\* the paragraphs whose key no later paragraph repeats
LastOfKey(j) == \A l \in (j + 1)..Len(notes) : notes[l][1] # notes[j][1]

\* C9: for notes markup made of paragraphs <p>key: value</p>, the parsed
\* mapping holds every key with its whitespace-trimmed value (values such as
\* -2 and C6H12O6 included) and holds no entry whose trimmed value is empty.
C9_NotesParse ==
    pc = "notes_parsed" =>
        /\ \A j \in 1..Len(notes) :
              (LastOfKey(j) /\ trim(notes[j][2]) # <<>>) =>
                  /\ notes[j][1] \in DOMAIN notes_dict
                  /\ notes_dict[notes[j][1]] = trim(notes[j][2])
        /\ \A k \in DOMAIN notes_dict : notes_dict[k] # <<>>

(***************************************************************************)
(* Annotations                                                             *)
(*                                                                         *)
(* A cobra annotation is a dictionary: here a sequence of entries          *)
(* [provider, value] in insertion order, the providers distinct.  A value  *)
(* is a bare string, Str(s), or a list, List(items), whose items are bare  *)
(* strings or (qualifier, entity) pairs.                                   *)
(***************************************************************************)
Str(s) == [t |-> "str", v |-> s]
List(items) == [t |-> "list", v |-> items]
Pair(q, e) == [t |-> "pair", q |-> q, e |-> e]

SLASH == "/"

URL_IDENTIFIERS_PREFIX == <<"https:", SLASH, SLASH, "identifiers.org">>

\* the keys of QUALIFIER_TYPES
QUALIFIER_TYPES ==
    {"is", "hasPart", "isPartOf", "isVersionOf", "hasVersion", "isHomologTo",
     "isDescribedBy", "isEncodedBy", "encodes", "occursIn", "hasProperty",
     "isPropertyOf", "hasTaxon", "unknown", "bqm_is", "bqm_isDescribedBy",
     "bqm_isDerivedFrom", "bqm_isInstanceOf", "bqm_hasInstance", "bqm_unknown"}

\* qualifier_str.startswith("bqm_"), over the qualifier strings of the model
starts_with_bqm(q) ==
    q \in {"bqm_is", "bqm_isDescribedBy", "bqm_isDerivedFrom", "bqm_isInstanceOf",
           "bqm_hasInstance", "bqm_unknown", "bqm_other"}

BIOLOGICAL_QUALIFIER == "BIOLOGICAL_QUALIFIER"
MODEL_QUALIFIER == "MODEL_QUALIFIER"

\* the keys of a dictionary, and the value of a key
keys_of(d) == {d[j].provider : j \in 1..Len(d)}
value_of(d, k) == d[CHOOSE j \in 1..Len(d) : d[j].provider = k].value

\* the dictionary as a mapping: what == of two Python dictionaries compares
as_map(d) == [k \in keys_of(d) |-> value_of(d, k)]

\* d[k] = v: the value of an existing key is replaced in place, a new key
\* is appended
dict_set(d, k, v) ==
    IF k \in keys_of(d)
    THEN [j \in 1..Len(d) |-> IF d[j].provider = k
                               THEN [provider |-> k, value |-> v] ELSE d[j]]
    ELSE Append(d, [provider |-> k, value |-> v])

\* uri.split('/'): the pieces between the slashes
RECURSIVE split(_, _)
split(uri, piece) ==
    IF uri = <<>> THEN <<piece>>
    ELSE IF Head(uri) = SLASH THEN <<piece>> \o split(Tail(uri), <<>>)
         ELSE split(Tail(uri), Append(piece, Head(uri)))

\* a fresh element: no ontology term, no cross-reference term
NewSBase(id) == [id |-> id, metaid |-> NoneStr, sbo |-> NoneStr, cvterms |-> <<>>]

\* the standardized copy of an annotation: every value a list of pairs
standardize(d) ==
    [j \in 1..Len(d) |->
        [provider |-> d[j].provider,
         value |-> IF d[j].value.t = "str"
                   THEN <<Pair("is", d[j].value.v)>>
                   ELSE [i \in 1..Len(d[j].value.v) |->
                            IF d[j].value.v[i].t = "str"
                            THEN Pair("is", d[j].value.v[i].v)
                            ELSE d[j].value.v[i]]]]

\* the cross-reference term built for one (qualifier, entity) pair
cvterm_of(provider, item) ==
    LET qualifier == IF item.q \in QUALIFIER_TYPES THEN item.q ELSE "is"
        qualifier_type == IF starts_with_bqm(item.q)
                          THEN MODEL_QUALIFIER ELSE BIOLOGICAL_QUALIFIER
    IN  [qualifier_type |-> qualifier_type,
         qualifier |-> qualifier,
         resources |-> <<URL_IDENTIFIERS_PREFIX \o <<SLASH>> \o provider
                          \o <<SLASH>> \o item.e>>]

RECURSIVE add_cvterms(_, _, _)
add_cvterms(sb, provider, data) ==
    IF data = <<>> THEN sb
    ELSE add_cvterms([sb EXCEPT !.cvterms = Append(@, cvterm_of(provider, Head(data)))],
                     provider, Tail(data))

\* the ontology term ids the library's SBO.checkTerm takes, over the entity
\* ids of the model: SBO: followed by seven digits
SBO_ID == <<"SBO:0000290">>
SBO_ID_2 == <<"SBO:0000626">>
ValidSBOTerms == {SBO_ID, SBO_ID_2}

\* sbase.setSBOTerm(sbo_term): a term the library does not take leaves the
\* field unset, and _check only logs the return code
setSBOTerm(sb, sbo_term) ==
    [sb EXCEPT !.sbo = IF sbo_term \in ValidSBOTerms THEN sbo_term ELSE NoneStr]

\* a writer for which no provider key is reserved
is_reserved_never(provider) == FALSE

\* provider in ["SBO", "sbo"]
is_reserved(provider) == provider \in {<<"SBO">>, <<"sbo">>}

\* the loop over the providers of the standardized annotation
RECURSIVE write_providers(_, _)
write_providers(sb, data) ==
    IF data = <<>> THEN sb
    ELSE LET e == Head(data)
         IN  IF is_reserved(e.provider)
             THEN write_providers(setSBOTerm(sb, e.value[1].e), Tail(data))
             ELSE write_providers(add_cvterms(sb, e.provider, e.value), Tail(data))

META_PREFIX == <<"meta_">>

\* an assignment instead of a copy: the same object under a second name
same_object(d) == [owner |-> "caller", data |-> d]

\* deepcopy(annotation): a new object that nobody else refers to
deepcopy(d) == [owner |-> "callee", data |-> d]

_sbase_annotations(sb, d) ==
    IF Len(d) = 0 THEN sb
    ELSE LET annotation_data == deepcopy(d)
         IN  write_providers([sb EXCEPT !.metaid = META_PREFIX \o sb.id],
                             standardize(annotation_data.data))

\* the caller's mapping after the call: the standardization acts on the
\* object annotation_data refers to
caller_annotation(d) ==
    IF Len(d) = 0 THEN d
    ELSE LET annotation_data == deepcopy(d)
         IN  IF annotation_data.owner = "caller"
             THEN [j \in 1..Len(d) |->
                      [provider |-> d[j].provider,
                       value |-> List(standardize(annotation_data.data)[j].value)]]
             ELSE d

\* all resource URIs of the element, term by term
RECURSIVE resources_of(_)
resources_of(cvterms) ==
    IF cvterms = <<>> THEN <<>>
    ELSE Head(cvterms).resources \o resources_of(Tail(cvterms))

IDENTIFIERS_ORG == <<"identifiers.org">>

\* a reader that takes the entity id to be everything after the provider
accepts_any_length(tokens) == Len(tokens) >= 5 /\ tokens[3] = IDENTIFIERS_ORG

\* the shape test of one URI's tokens
accepts(tokens) == Len(tokens) = 5 /\ tokens[3] = IDENTIFIERS_ORG

\* the loop over the resource URIs
RECURSIVE read_resources(_, _)
read_resources(d, uris) ==
    IF uris = <<>> THEN d
    ELSE LET tokens == split(Head(uris), <<>>)
         IN  IF ~accepts(tokens) THEN read_resources(d, Tail(uris))
             ELSE LET provider == tokens[4]
                      identifier == tokens[5]
                  IN  IF provider \in keys_of(d)
                      THEN LET old == value_of(d, provider)
                               lst == IF old.t = "str" THEN <<Str(old.v)>> ELSE old.v
                           IN  read_resources(
                                   dict_set(d, provider, List(Append(lst, Str(identifier)))),
                                   Tail(uris))
                      ELSE read_resources(dict_set(d, provider, Str(identifier)),
                                          Tail(uris))

_parse_annotations(sb) ==
    LET start == IF sb.sbo # NoneStr
                 THEN <<[provider |-> <<"sbo">>, value |-> Str(sb.sbo)]>>
                 ELSE <<>>
    IN  read_resources(start, resources_of(sb.cvterms))

(***************************************************************************)
(* The annotation codec's specification: an annotation is filled in,       *)
(* serialized to a fresh element, and parsed back from it.                 *)
(***************************************************************************)
MaxProviders == 2

Providers == {<<"chebi">>, <<"doi">>, <<"sbo">>, <<"SBO">>}

CHEBI_ID == <<"CHEBI:17234">>
DOI_ID == <<"10.1000", SLASH, "182">>

AnnotationValues ==
    {Str(CHEBI_ID), Str(DOI_ID), Str(SBO_ID),
     List(<<Pair("isVersionOf", CHEBI_ID), Str(SBO_ID)>>),
     List(<<Pair("bqm_is", SBO_ID), Pair("other", CHEBI_ID)>>),
     List(<<Str(SBO_ID_2), Pair("is", SBO_ID)>>)}

ELEMENT_ID == <<"e1">>

InitAnnot ==
    /\ pc = "annot"
    /\ annotation = <<>>
    /\ sbase = NewSBase(ELEMENT_ID)
    /\ parsed = None
    /\ IdleModel /\ IdleIds /\ IdleNotes /\ IdleGpr /\ IdleApi

AddEntry ==
    /\ pc = "annot"
    /\ Len(annotation) < MaxProviders
    /\ \E p \in Providers \ keys_of(annotation), v \in AnnotationValues :
          annotation' = dict_set(annotation, p, v)
    /\ UNCHANGED <<pc, sbase, parsed, modelVars, idVars, notesVars, gprVars, apiVars>>

Serialize ==
    /\ pc = "annot"
    /\ sbase' = _sbase_annotations(sbase, annotation)
    /\ annotation' = caller_annotation(annotation)
    /\ pc' = "serialized"
    /\ UNCHANGED <<parsed, modelVars, idVars, notesVars, gprVars, apiVars>>

Parse ==
    /\ pc = "serialized"
    /\ parsed' = _parse_annotations(sbase)
    /\ pc' = "parsed"
    /\ UNCHANGED <<annotation, sbase, modelVars, idVars, notesVars, gprVars, apiVars>>

NextAnnot == AddEntry \/ Serialize \/ Parse

SpecAnnot == InitAnnot /\ [][NextAnnot]_vars

\* every provider maps to one bare entity-id string, and none is reserved
BareStringsOnly ==
    \A j \in 1..Len(annotation) :
        /\ annotation[j].value.t = "str"
        /\ annotation[j].provider \notin {<<"sbo">>, <<"SBO">>}

\* C10: for an annotation that maps each non-reserved provider to one bare
\* entity-id string, serialize attaches exactly one cross-reference term per
\* provider, with qualifier is and the single resource
\* https://identifiers.org/<provider>/<entity-id>, and parse of the
\* serialized element returns the original annotation.
C10_AnnotationRoundTrip ==
    (pc = "parsed" /\ BareStringsOnly) =>
        /\ Len(sbase.cvterms) = Len(annotation)
        /\ \A j \in 1..Len(annotation) :
              /\ sbase.cvterms[j].qualifier = "is"
              /\ sbase.cvterms[j].qualifier_type = BIOLOGICAL_QUALIFIER
              /\ sbase.cvterms[j].resources =
                    <<URL_IDENTIFIERS_PREFIX \o <<SLASH>> \o annotation[j].provider
                       \o <<SLASH>> \o annotation[j].value.v>>
        /\ as_map(parsed) = as_map(annotation)

\* C12: serialize leaves the caller's annotation mapping unchanged (bare
\* strings stay bare strings, lists keep their items) for every input
\* shape, and with an empty annotation the element is unchanged too.
same_item(x, y) ==
    /\ x.t = y.t
    /\ x.t = "str" => x.v = y.v
    /\ x.t = "pair" => (x.q = y.q /\ x.e = y.e)

same_value(a, b) ==
    /\ a.t = b.t
    /\ a.t = "str" => a.v = b.v
    /\ a.t = "list" =>
          /\ Len(a.v) = Len(b.v)
          /\ \A i \in 1..Len(a.v) : same_item(a.v[i], b.v[i])

C12_CallerAnnotationUnchanged ==
    [][(pc = "annot" /\ pc' = "serialized") =>
          /\ Len(annotation') = Len(annotation)
          /\ \A j \in 1..Len(annotation) :
                /\ annotation'[j].provider = annotation[j].provider
                /\ same_value(annotation'[j].value, annotation[j].value)
          /\ annotation = <<>> => sbase' = sbase]_vars

C12_Witness ==
    /\ pc = "serialized"
    /\ \E j \in 1..Len(annotation) : annotation[j].value.t = "str"
    /\ \E j \in 1..Len(annotation) :
          /\ annotation[j].value.t = "list"
          /\ \E i \in 1..Len(annotation[j].value.v) : annotation[j].value.v[i].t = "str"
    /\ sbase.metaid = META_PREFIX \o ELEMENT_ID

Reserved == {<<"sbo">>, <<"SBO">>}

\* the (qualifier, entity-id) pairs a value stands for, in their order
entity_ids(value) ==
    IF value.t = "str" THEN <<value.v>>
    ELSE [i \in 1..Len(value.v) |->
             IF value.v[i].t = "str" THEN value.v[i].v ELSE value.v[i].e]

\* the pairs of the providers that are not reserved, as <<provider, entity>>,
\* in provider order then pair order
RECURSIVE other_pairs(_, _)
other_pairs(d, j) ==
    IF j > Len(d) THEN <<>>
    ELSE (IF d[j].provider \in Reserved THEN <<>>
          ELSE [i \in 1..Len(entity_ids(d[j].value)) |->
                   <<d[j].provider, entity_ids(d[j].value)[i]>>])
         \o other_pairs(d, j + 1)

\* the positions of the reserved keys in the annotation
reserved_positions(d) == {j \in 1..Len(d) : d[j].provider \in Reserved}

MaxResources == 3

HTTPS == "https:"
HTTP == "http:"

\* resource URIs as documents carry them: well formed, with the older
\* scheme, with a slash in the entity id, with another host, without scheme
ResourceURIs ==
    {<<HTTPS, SLASH, SLASH, "identifiers.org", SLASH, "chebi", SLASH, "CHEBI:17234">>,
     <<HTTP, SLASH, SLASH, "identifiers.org", SLASH, "chebi", SLASH, "CHEBI:15377">>,
     <<HTTPS, SLASH, SLASH, "identifiers.org", SLASH, "sbo", SLASH, "SBO:0000290">>,
     <<HTTPS, SLASH, SLASH, "identifiers.org", SLASH, "doi", SLASH, "10.1000", SLASH, "182">>,
     <<HTTPS, SLASH, SLASH, "example.org", SLASH, "chebi", SLASH, "CHEBI:17234">>,
     <<"identifiers.org", SLASH, "chebi", SLASH, "CHEBI:17234">>}

SBOTerms == {<<"SBO:0000176">>}

num_resources(cvterms) == Len(resources_of(cvterms))

InitParse ==
    /\ pc = "element"
    /\ annotation = <<>>
    /\ sbase = NewSBase(ELEMENT_ID)
    /\ parsed = None
    /\ IdleModel /\ IdleIds /\ IdleNotes /\ IdleGpr /\ IdleApi

\* the document gives the element an ontology term
SetSBOTerm ==
    /\ pc = "element"
    /\ sbase.sbo = NoneStr
    /\ \E t \in SBOTerms : sbase' = [sbase EXCEPT !.sbo = t]
    /\ UNCHANGED <<pc, annotation, parsed, modelVars, idVars, notesVars, gprVars, apiVars>>

\* the document gives the element one more cross-reference term
AttachTerm ==
    /\ pc = "element"
    /\ num_resources(sbase.cvterms) < MaxResources
    /\ \E uri \in ResourceURIs :
          sbase' = [sbase EXCEPT !.cvterms =
                       Append(@, [qualifier_type |-> BIOLOGICAL_QUALIFIER,
                                  qualifier |-> "is",
                                  resources |-> <<uri>>])]
    /\ UNCHANGED <<pc, annotation, parsed, modelVars, idVars, notesVars, gprVars, apiVars>>

\* the document gives the element's last term one more resource
AttachResource ==
    /\ pc = "element"
    /\ sbase.cvterms # <<>>
    /\ num_resources(sbase.cvterms) < MaxResources
    /\ \E uri \in ResourceURIs :
          sbase' = [sbase EXCEPT !.cvterms[Len(sbase.cvterms)].resources = Append(@, uri)]
    /\ UNCHANGED <<pc, annotation, parsed, modelVars, idVars, notesVars, gprVars, apiVars>>

ParseElement ==
    /\ pc = "element"
    /\ parsed' = _parse_annotations(sbase)
    /\ pc' = "element_parsed"
    /\ UNCHANGED <<annotation, sbase, modelVars, idVars, notesVars, gprVars, apiVars>>

NextParse == SetSBOTerm \/ AttachTerm \/ AttachResource \/ ParseElement

SpecParse == InitParse /\ [][NextParse]_vars

\* exactly five tokens with host identifiers.org
FiveTokens(uri) ==
    /\ Len(split(uri, <<>>)) = 5
    /\ split(uri, <<>>)[3] = <<"identifiers.org">>

\* the entity ids of the well-shaped URIs that name the provider, in order
RECURSIVE accepted_ids(_, _)
accepted_ids(uris, provider) ==
    IF uris = <<>> THEN <<>>
    ELSE LET rest == accepted_ids(Tail(uris), provider)
             tokens == split(Head(uris), <<>>)
         IN  IF FiveTokens(Head(uris)) /\ tokens[4] = provider
             THEN <<tokens[5]>> \o rest ELSE rest

\* the providers named by the well-shaped URIs
accepted_providers(uris) ==
    {split(uris[j], <<>>)[4] : j \in {i \in 1..Len(uris) : FiveTokens(uris[i])}}

\* the entries recorded for a provider: the ontology term, if the element
\* has one, comes first under sbo
recorded(sb, provider) ==
    (IF provider = <<"sbo">> /\ sb.sbo # NoneStr THEN <<sb.sbo>> ELSE <<>>)
        \o accepted_ids(resources_of(sb.cvterms), provider)

\* a bare string for one entry, a list of bare strings for more
holds(value, ids) ==
    IF Len(ids) = 1 THEN value = Str(ids[1])
    ELSE value = List([i \in 1..Len(ids) |-> Str(ids[i])])

\* C11 as stated: a URI is accepted only with exactly five tokens and host
\* identifiers.org and is otherwise skipped; each provider key holds a bare
\* string when exactly one accepted URI named the provider, and otherwise
\* a list of the bare entity ids in the order encountered.
C11_AsStated ==
    pc = "element_parsed" =>
        \A p \in accepted_providers(resources_of(sbase.cvterms)) :
            /\ p \in keys_of(parsed)
            /\ holds(value_of(parsed, p), accepted_ids(resources_of(sbase.cvterms), p))

\* C11 amended: the keys are the providers named by the URIs with exactly
\* five tokens and host identifiers.org, and sbo when the element has an
\* ontology term; every other URI is skipped; a key holds a bare string when
\* exactly one entry was recorded for the provider, and otherwise the list
\* of the entries in order, where the ontology term counts as the first
\* entry of sbo.
C11_ParseAnnotations ==
    pc = "element_parsed" =>
        /\ keys_of(parsed) =
              accepted_providers(resources_of(sbase.cvterms))
                 \cup (IF sbase.sbo # NoneStr THEN {<<"sbo">>} ELSE {})
        /\ \A p \in keys_of(parsed) : holds(value_of(parsed, p), recorded(sbase, p))

C11_Witness ==
    /\ pc = "element_parsed"
    /\ \E j \in 1..Len(resources_of(sbase.cvterms)) :
          ~FiveTokens(resources_of(sbase.cvterms)[j])
    /\ \E p \in keys_of(parsed) :
          /\ value_of(parsed, p).t = "list"
          /\ Len(accepted_ids(resources_of(sbase.cvterms), p)) = 2

(***************************************************************************)
(* Gene associations of the FBC package: a tree of or-nodes, and-nodes and *)
(* references to gene products, rendered to a rule string.                 *)
(***************************************************************************)
FbcOr(children) == [type |-> "or", geneProduct |-> <<>>, associations |-> children]
FbcAnd(children) == [type |-> "and", geneProduct |-> <<>>, associations |-> children]
GeneProductRef(gid) == [type |-> "ref", geneProduct |-> gid, associations |-> <<>>]

\* sep.join(strings)
RECURSIVE join(_, _)
join(sep, strings) ==
    IF strings = <<>> THEN <<>>
    ELSE IF Len(strings) = 1 THEN strings[1]
    ELSE strings[1] \o sep \o join(sep, Tail(strings))

OR_SEP == <<" ", "o", "r", " ">>
AND_SEP == <<" ", "a", "n", "d", " ">>

\* a grouping that puts the parentheses next to the operands
group_tight(sep, rendered) == <<"(">> \o join(sep, rendered) \o <<")">>

\* " ".join(["(", sep.join(rendered), ")"])
group(sep, rendered) == join(<<" ">>, <<<<"(">>, join(sep, rendered), <<")">>>>)

RECURSIVE process_association(_, _)
process_association(ass, f_rep) ==
    LET children == [i \in 1..Len(ass.associations) |->
                        process_association(ass.associations[i], f_rep)]
    IN  IF ass.type = "or" THEN group(OR_SEP, children)
        ELSE IF ass.type = "and" THEN group(AND_SEP, children)
        ELSE f_apply(f_rep, F_GENE, ass.geneProduct)

MaxNodes == 2
MaxChildren == 3

G1 == <<"G", "_", "g", "1">>
G2 == <<"G", "_", "g", "2">>
G3 == <<"G", "_", "g", "3">>
GeneProductIds == {G1, G2, G3}

RECURSIVE num_nodes(_)
RECURSIVE sum_nodes(_)
sum_nodes(children) ==
    IF children = <<>> THEN 0 ELSE num_nodes(Head(children)) + sum_nodes(Tail(children))
num_nodes(ass) == IF ass.type = "ref" THEN 0 ELSE 1 + sum_nodes(ass.associations)

InitGpr ==
    /\ pc = "tree"
    /\ f_replace \in {F_REPLACE, {}}
    /\ \E gid \in GeneProductIds : association = GeneProductRef(gid)
    /\ gpr_str = None
    /\ cobra_model = NoModel /\ doc = NoDoc /\ read_model = NoModel
    /\ IdleIds /\ IdleNotes /\ IdleAnnot /\ IdleApi

\* the association becomes the first or the last child of a new node, next
\* to a reference
NewNode ==
    /\ pc = "tree"
    /\ num_nodes(association) < MaxNodes
    /\ \E gid \in GeneProductIds, first \in BOOLEAN, or \in BOOLEAN :
          LET children == IF first THEN <<association, GeneProductRef(gid)>>
                          ELSE <<GeneProductRef(gid), association>>
          IN  association' = IF or THEN FbcOr(children) ELSE FbcAnd(children)
    /\ UNCHANGED <<pc, gpr_str, modelVars, idVars, notesVars, annotVars, apiVars>>

\* the top node gets one more reference, to another gene product than its
\* last child
NewChild ==
    /\ pc = "tree"
    /\ association.type # "ref"
    /\ Len(association.associations) < MaxChildren
    /\ LET last == association.associations[Len(association.associations)]
           gid == IF last.geneProduct = G2 THEN G3 ELSE G2
       IN  association' = [association EXCEPT !.associations = Append(@, GeneProductRef(gid))]
    /\ UNCHANGED <<pc, gpr_str, modelVars, idVars, notesVars, annotVars, apiVars>>

Render ==
    /\ pc = "tree"
    /\ gpr_str' = process_association(association, f_replace)
    /\ pc' = "rendered"
    /\ UNCHANGED <<association, modelVars, idVars, notesVars, annotVars, apiVars>>

NextGpr == NewNode \/ NewChild \/ Render

SpecGpr == InitGpr /\ [][NextGpr]_vars

\* the rendering the rule describes: "( " + children joined + " )"
RECURSIVE rendering(_, _)
RECURSIVE joined(_, _, _)
joined(children, sep, f_rep) ==
    IF Len(children) = 1 THEN rendering(children[1], f_rep)
    ELSE rendering(children[1], f_rep) \o sep \o joined(Tail(children), sep, f_rep)
rendering(ass, f_rep) ==
    IF ass.type = "ref"
    THEN (IF F_GENE \in f_rep THEN _f_gene(ass.geneProduct) ELSE ass.geneProduct)
    ELSE <<"(", " ">>
            \o joined(ass.associations, IF ass.type = "or" THEN OR_SEP ELSE AND_SEP, f_rep)
            \o <<" ", ")">>

OrAndExample == FbcOr(<<FbcAnd(<<GeneProductRef(G1), GeneProductRef(G2)>>), GeneProductRef(G3)>>)

OrAndRendered ==
    <<"(", " ", "(", " ", "g", "1", " ", "a", "n", "d", " ", "g", "2", " ", ")",
      " ", "o", "r", " ", "g", "3", " ", ")">>

\* C13: an OR node renders as "( " + its children's renderings joined by
\* " or " + " )", an AND node the same with " and ", a leaf as its
\* transformed gene id; OR(AND(g1, g2), g3) renders to
\* "( ( g1 and g2 ) or g3 )" and a bare leaf renders with no parentheses.
C13_Rendering ==
    pc = "rendered" =>
        /\ gpr_str = rendering(association, f_replace)
        /\ (association = OrAndExample /\ f_replace = F_REPLACE) => gpr_str = OrAndRendered
        /\ association.type = "ref" => ~contains(gpr_str, <<"(">>) /\ ~contains(gpr_str, <<")">>)

C13_Witness ==
    /\ pc = "rendered"
    /\ association = OrAndExample
    /\ f_replace = F_REPLACE
    /\ gpr_str = OrAndRendered

(***************************************************************************)
(* Defaults and constants for writing SBML                                 *)
(***************************************************************************)
LOWER_BOUND == -1000
UPPER_BOUND == 1000
LOWER_BOUND_ID == <<"c", "o", "b", "r", "a", "_", "d", "e", "f", "a", "u", "l", "t", "_", "l", "b">>
UPPER_BOUND_ID == <<"c", "o", "b", "r", "a", "_", "d", "e", "f", "a", "u", "l", "t", "_", "u", "b">>
ZERO_BOUND_ID == <<"c", "o", "b", "r", "a", "_", "0", "_", "b", "o", "u", "n", "d">>

SBO_DEFAULT_FLUX_BOUND == "SBO:0000626"
SBO_FLUX_BOUND == "SBO:0000625"

\* UNITS_FLUX[0]
UNITS_FLUX_ID == "mmol_per_gDW_per_hr"

LOWER_BOUND_ATTR == <<"l", "o", "w", "e", "r", "_", "b", "o", "u", "n", "d">>
UPPER_BOUND_ATTR == <<"u", "p", "p", "e", "r", "_", "b", "o", "u", "n", "d">>

\* getattr(reaction, bound_type)
getattr(reaction, bound_type) ==
    IF bound_type = LOWER_BOUND_ATTR THEN reaction.lower_bound ELSE reaction.upper_bound

(***************************************************************************)
(* Bound/parameter manager                                                 *)
(***************************************************************************)
\* model.createParameter() and the setters: the model's parameters with the
\* new one appended
_create_parameter(parameters, pid, value, sbo, units, flux_udef) ==
    Append(parameters,
           [id |-> pid, value |-> value, isSetValue |-> TRUE, constant |-> TRUE,
            sbo |-> sbo,
            units |-> IF units THEN flux_udef ELSE None])

\* a manager without the zero case: a bound of 0 gets its own parameter
create_bound_no_zero(parameters, reaction, bound_type, f_rep, units, flux_udef) ==
    LET value == getattr(reaction, bound_type)
        rid == f_apply(f_rep, F_REACTION_REV, reaction.id)
        pid == rid \o <<"_">> \o bound_type
    IN  IF value = LOWER_BOUND
        THEN [pid |-> LOWER_BOUND_ID, parameters |-> parameters]
        ELSE IF value = UPPER_BOUND
        THEN [pid |-> UPPER_BOUND_ID, parameters |-> parameters]
        ELSE [pid |-> pid,
              parameters |-> _create_parameter(parameters, pid, value,
                                               SBO_FLUX_BOUND, units, flux_udef)]

\* a manager without deduplication: every bound gets its own parameter
create_bound_always_new(parameters, reaction, bound_type, f_rep, units, flux_udef) ==
    LET value == getattr(reaction, bound_type)
        rid == f_apply(f_rep, F_REACTION_REV, reaction.id)
        pid == rid \o <<"_">> \o bound_type
    IN  [pid |-> pid,
         parameters |-> _create_parameter(parameters, pid, value,
                                          SBO_FLUX_BOUND, units, flux_udef)]

\* the parameter id returned, and the model's parameters afterwards
_create_bound(parameters, reaction, bound_type, f_rep, units, flux_udef) ==
    LET value == getattr(reaction, bound_type)
    IN  IF value = LOWER_BOUND
        THEN [pid |-> LOWER_BOUND_ID, parameters |-> parameters]
        ELSE IF value = 0
        THEN [pid |-> ZERO_BOUND_ID, parameters |-> parameters]
        ELSE IF value = UPPER_BOUND
        THEN [pid |-> UPPER_BOUND_ID, parameters |-> parameters]
        ELSE LET rid == f_apply(f_rep, F_REACTION_REV, reaction.id)
                 pid == rid \o <<"_">> \o bound_type
             IN  [pid |-> pid,
                  parameters |-> _create_parameter(parameters, pid, value,
                                                   SBO_FLUX_BOUND, units, flux_udef)]

\* min / max of a list attribute of the reactions
min_of(values) == CHOOSE v \in values : \A w \in values : v <= w
max_of(values) == CHOOSE v \in values : \A w \in values : v >= w

list_attr(reactions, bound_type) ==
    {getattr(reactions[j], bound_type) : j \in 1..Len(reactions)}

\* the three shared parameters the writer creates before anything else
shared_parameters(reactions) ==
    LET min_value == IF Len(reactions) > 0
                     THEN min_of(list_attr(reactions, LOWER_BOUND_ATTR))
                     ELSE LOWER_BOUND
        max_value == IF Len(reactions) > 0
                     THEN max_of(list_attr(reactions, UPPER_BOUND_ATTR))
                     ELSE UPPER_BOUND
        p1 == _create_parameter(<<>>, LOWER_BOUND_ID, min_value,
                                SBO_DEFAULT_FLUX_BOUND, FALSE, None)
        p2 == _create_parameter(p1, UPPER_BOUND_ID, max_value,
                                SBO_DEFAULT_FLUX_BOUND, FALSE, None)
    IN  _create_parameter(p2, ZERO_BOUND_ID, 0, SBO_DEFAULT_FLUX_BOUND, FALSE, None)

(***************************************************************************)
(* Write SBML                                                              *)
(***************************************************************************)
\* the species element of one metabolite
write_species(met, f_rep) ==
    [id |-> f_apply(f_rep, F_SPECIE_REV, met.id),
     constant |-> TRUE,
     boundaryCondition |-> TRUE,
     hasOnlySubstanceUnits |-> FALSE,
     name |-> met.name,
     compartment |-> met.compartment,
     fbc |-> TRUE,
     fbc_charge |-> met.charge,
     fbc_chemicalFormula |-> met.formula,
     charge |-> NoneInt,
     notes |-> <<>>]

\* the gene product element of one gene
write_gene(gene, f_rep) ==
    LET gid == f_apply(f_rep, F_GENE_REV, gene.id)
        gname == IF gene.name = NoneStr \/ Len(gene.name) = 0 THEN gid ELSE gene.name
    IN  [id |-> gid, name |-> gname, label |-> gid]

\* a reaction element without kinetic law, and one without gene product
\* association
NoKineticLaw ==
    [isSet |-> FALSE, LOWER_BOUND |-> <<>>, UPPER_BOUND |-> <<>>,
     OBJECTIVE_COEFFICIENT |-> <<>>]

\* the objective of a written document: "obj", active, with the direction
\* of the model's objective (a new model maximizes an empty objective, and
\* no reaction of the models written here has a coefficient)
OBJ_ID == <<"o", "b", "j">>
SHORT_LONG_DIRECTION(direction) ==
    CASE direction = "min" -> "minimize" [] direction = "max" -> "maximize"
written_objectives ==
    [present |-> TRUE, activeObjective |-> OBJ_ID,
     list |-> <<[id |-> OBJ_ID, type |-> SHORT_LONG_DIRECTION("max"),
                 fluxObjectives |-> <<>>]>>]
NoAssociation == [type |-> "none", geneProduct |-> <<>>, associations |-> <<>>]

\* the species references of one side of a reaction, in the order of the
\* reaction's metabolites
RECURSIVE write_srefs(_, _, _)
write_srefs(mets, f_rep, reactants) ==
    IF mets = <<>> THEN <<>>
    ELSE LET m == Head(mets)
             sid == f_apply(f_rep, F_SPECIE_REV, m.id)
             rest == write_srefs(Tail(mets), f_rep, reactants)
         IN  IF reactants /\ m.coefficient < 0
             THEN <<[species |-> sid, stoichiometry |-> -m.coefficient,
                     constant |-> TRUE]>> \o rest
             ELSE IF ~reactants /\ ~(m.coefficient < 0)
             THEN <<[species |-> sid, stoichiometry |-> m.coefficient,
                     constant |-> TRUE]>> \o rest
             ELSE rest

\* the loop over the reactions: the reaction elements and the parameters
RECURSIVE write_reactions(_, _, _, _, _)
write_reactions(sofar, reactions, f_rep, units, flux_udef) ==
    IF reactions = <<>> THEN sofar
    ELSE LET reaction == Head(reactions)
             lb == _create_bound(sofar.parameters, reaction, LOWER_BOUND_ATTR,
                                 f_rep, units, flux_udef)
             ub == _create_bound(lb.parameters, reaction, UPPER_BOUND_ATTR,
                                 f_rep, units, flux_udef)
             r == [id |-> f_apply(f_rep, F_REACTION_REV, reaction.id),
                   name |-> reaction.name,
                   fast |-> FALSE,
                   reversible |-> reaction.lower_bound < 0,
                   reactants |-> write_srefs(reaction.metabolites, f_rep, TRUE),
                   products |-> write_srefs(reaction.metabolites, f_rep, FALSE),
                   fbc |-> TRUE,
                   lowerFluxBound |-> lb.pid,
                   upperFluxBound |-> ub.pid,
                   kineticLaw |-> NoKineticLaw,
                   gpa |-> NoAssociation,
                   notes |-> <<>>]
         IN  write_reactions([parameters |-> ub.parameters,
                              reactions |-> Append(sofar.reactions, r)],
                             Tail(reactions), f_rep, units, flux_udef)

\* the document, or the exception that ends the call: without units the
\* name flux_udef is never bound, and the first reaction's bounds read it
_model_to_sbml(m, f_rep, units) ==
    IF ~units /\ Len(m.reactions) > 0
    THEN [status |-> "error", error |-> "UnboundLocalError"]
    ELSE LET flux_udef == IF units THEN UNITS_FLUX_ID ELSE None
             written == write_reactions(
                            [parameters |-> shared_parameters(m.reactions),
                             reactions |-> <<>>],
                            m.reactions, f_rep, units, flux_udef)
         IN  [status |-> "ok",
              model |-> TRUE,
              fbc |-> TRUE,
              unitDefinitions |-> IF units THEN <<UNITS_FLUX_ID>> ELSE <<>>,
              parameters |-> written.parameters,
              species |-> [j \in 1..Len(m.metabolites) |->
                              write_species(m.metabolites[j], f_rep)],
              geneProducts |-> [j \in 1..Len(m.genes) |-> write_gene(m.genes[j], f_rep)],
              objectives |-> written_objectives,
              reactions |-> written.reactions]

(***************************************************************************)
(* Read SBML                                                               *)
(***************************************************************************)
\* whether model.getParameter(pid) is an element rather than None
has_parameter(parameters, pid) ==
    \E j \in 1..Len(parameters) : parameters[j].id = pid

\* model.getParameter(pid): the first parameter with the id
getParameter(parameters, pid) ==
    parameters[CHOOSE j \in 1..Len(parameters) :
                  /\ parameters[j].id = pid
                  /\ \A l \in 1..(j - 1) : parameters[l].id # pid]

\* the metabolite read from one species element
CHARGE == <<"C", "H", "A", "R", "G", "E">>
FORMULA == <<"F", "O", "R", "M", "U", "L", "A">>

DecimalDigits == <<"0", "1", "2", "3", "4", "5", "6", "7", "8", "9">>

\* the decimal value of a string of digits
RECURSIVE decimal(_)
decimal(s) ==
    IF s = <<>> THEN 0
    ELSE 10 * decimal(SubSeq(s, 1, Len(s) - 1))
            + (CHOOSE n \in 0..9 : DecimalDigits[n + 1] = s[Len(s)])

\* whether int(s) raises ValueError, and its value: digits with an optional
\* sign
is_int(s) ==
    LET body == IF s # <<>> /\ Head(s) \in {"-", "+"} THEN Tail(s) ELSE s
    IN  body # <<>> /\ \A n \in 1..Len(body) : \E k \in 1..10 : DecimalDigits[k] = body[n]

int(s) ==
    IF Head(s) = "-" THEN <<0 - decimal(Tail(s))>>
    ELSE IF Head(s) = "+" THEN <<decimal(Tail(s))>> ELSE <<decimal(s)>>

\* FbcSpeciesPlugin.getCharge() and getChemicalFormula(): 0 and the empty
\* string for a field that is not set
fbc_getCharge(sp) == IF sp.fbc_charge # NoneInt THEN sp.fbc_charge ELSE <<0>>
fbc_getChemicalFormula(sp) ==
    IF sp.fbc_chemicalFormula = NoneStr THEN <<>> ELSE sp.fbc_chemicalFormula

\* "if s_fbc:" the element has the plugin of the FBC package
has_s_fbc(sp) == sp.fbc

\* met.charge: None is the value a new metabolite has
species_charge(sp, species_notes) ==
    IF has_s_fbc(sp) THEN fbc_getCharge(sp)
    ELSE IF sp.charge # NoneInt THEN sp.charge
    ELSE IF CHARGE \in DOMAIN species_notes /\ is_int(species_notes[CHARGE])
    THEN int(species_notes[CHARGE])
    ELSE NoneInt

species_formula(sp, species_notes) ==
    IF has_s_fbc(sp) THEN fbc_getChemicalFormula(sp)
    ELSE IF FORMULA \in DOMAIN species_notes THEN species_notes[FORMULA]
    ELSE NoneStr

\* the warnings logged for the deprecated sources of one species
species_warnings(sp, species_notes) ==
    IF has_s_fbc(sp) THEN {}
    ELSE (IF sp.charge # NoneInt THEN {"charge attribute"}
          ELSE IF CHARGE \in DOMAIN species_notes THEN {"CHARGE note"} ELSE {})
         \cup (IF FORMULA \in DOMAIN species_notes THEN {"FORMULA note"} ELSE {})

read_species(sp, f_rep) ==
    [id |-> f_apply(f_rep, F_SPECIE, sp.id),
     name |-> sp.name,
     compartment |-> sp.compartment,
     charge |-> species_charge(sp, _parse_notes_dict(sp.notes)),
     formula |-> species_formula(sp, _parse_notes_dict(sp.notes)),
     warnings |-> species_warnings(sp, _parse_notes_dict(sp.notes))]

\* the ids of the species flagged as boundary condition: s.getId(), the id
\* as it stands in the document
boundary_ids_of(species) ==
    {species[j].id : j \in {l \in 1..Len(species) : species[l].boundaryCondition}}

\* the gene read from one gene product element
read_gene(gp, f_rep) ==
    LET gid == f_apply(f_rep, F_GENE, gp.id)
    IN  [id |-> gid, name |-> IF gp.name = NoneStr THEN gid ELSE gp.name]

\* stoichiometry[sid] += delta on the defaultdict, kept in insertion order
stoich_add(stoichiometry, sid, delta) ==
    IF \E j \in 1..Len(stoichiometry) : stoichiometry[j].id = sid
    THEN [j \in 1..Len(stoichiometry) |->
             IF stoichiometry[j].id = sid
             THEN [id |-> sid, coefficient |-> stoichiometry[j].coefficient + delta]
             ELSE stoichiometry[j]]
    ELSE Append(stoichiometry, [id |-> sid, coefficient |-> delta])

\* the loop over the reactants (sign -1) or the products (sign 1)
RECURSIVE parse_srefs(_, _, _, _)
parse_srefs(stoichiometry, srefs, sign, f_rep) ==
    IF srefs = <<>> THEN stoichiometry
    ELSE parse_srefs(stoich_add(stoichiometry,
                                f_apply(f_rep, F_SPECIE, Head(srefs).species),
                                sign * Head(srefs).stoichiometry),
                     Tail(srefs), sign, f_rep)

\* a reader that compares the boundary ids after the identifier transform
kept_after_transform(met_id, boundary_ids, metabolite_ids, f_rep) ==
    /\ met_id \notin {f_apply(f_rep, F_SPECIE, b) : b \in boundary_ids}
    /\ met_id \in metabolite_ids

\* whether the reader keeps a reference to met_id
kept(met_id, boundary_ids, metabolite_ids, f_rep) ==
    /\ met_id \notin boundary_ids
    /\ met_id \in metabolite_ids

\* object_stoichiometry: the entries that are neither boundary species nor
\* unknown metabolites
RECURSIVE object_stoichiometry(_, _, _, _)
object_stoichiometry(stoichiometry, boundary_ids, metabolite_ids, f_rep) ==
    IF stoichiometry = <<>> THEN <<>>
    ELSE LET rest == object_stoichiometry(Tail(stoichiometry), boundary_ids,
                                          metabolite_ids, f_rep)
         IN  IF kept(Head(stoichiometry).id, boundary_ids, metabolite_ids, f_rep)
             THEN <<Head(stoichiometry)>> \o rest
             ELSE rest

\* Parameter.getValue(): the library hands back a float for every
\* parameter, NaN for one whose value attribute is not set
NaN == "nan"
getValue(p) == IF p.isSetValue THEN p.value ELSE NaN

\* "p.getValue() is not None": a float is never None
value_is_not_None(p) == TRUE

\* the bounds of a reaction with FBC information: the two referenced
\* parameters, or the exception raised
fbc_bounds(r, parameters) ==
    IF r.lowerFluxBound = NoneStr \/ r.upperFluxBound = NoneStr
    THEN [error |-> "CobraSBMLError"]
    ELSE IF ~has_parameter(parameters, r.lowerFluxBound)
            \/ ~has_parameter(parameters, r.upperFluxBound)
    THEN [error |-> "AttributeError"]
    ELSE LET p_lb == getParameter(parameters, r.lowerFluxBound)
             p_ub == getParameter(parameters, r.upperFluxBound)
         IN  IF ~(p_lb.constant /\ value_is_not_None(p_lb))
             THEN [error |-> "CobraSBMLError"]
             ELSE IF ~(p_ub.constant /\ value_is_not_None(p_ub))
             THEN [error |-> "CobraSBMLError"]
             ELSE [error |-> None, lower_bound |-> getValue(p_lb),
                   upper_bound |-> getValue(p_ub)]

\* the bounds of a legacy reaction: the kinetic law's local parameters
\* LOWER_BOUND and UPPER_BOUND (a sequence of at most one value each)
klaw_bounds(klaw) ==
    IF klaw.LOWER_BOUND = <<>> \/ klaw.UPPER_BOUND = <<>>
    THEN [error |-> "CobraSBMLError"]
    ELSE [error |-> None, lower_bound |-> klaw.LOWER_BOUND[1],
          upper_bound |-> klaw.UPPER_BOUND[1]]

\* the bounds of a reaction, or the exception raised
read_bounds(r, parameters) ==
    IF r.fbc THEN fbc_bounds(r, parameters)
    ELSE IF r.kineticLaw.isSet THEN klaw_bounds(r.kineticLaw)
    ELSE [error |-> "CobraSBMLError"]

GENE_ASSOCIATION_SPACE == <<"G", "E", "N", "E", " ", "A", "S", "S", "O", "C", "I", "A", "T", "I", "O", "N">>
GENE_ASSOCIATION == <<"G", "E", "N", "E", "_", "A", "S", "S", "O", "C", "I", "A", "T", "I", "O", "N">>

\* s.split(sep) for a separator of one character
RECURSIVE split_on(_, _, _)
split_on(s, sep, piece) ==
    IF s = <<>> THEN <<piece>>
    ELSE IF Head(s) = sep THEN <<piece>> \o split_on(Tail(s), sep, <<>>)
         ELSE split_on(Tail(s), sep, Append(piece, Head(s)))

endswith(s, suffix) ==
    Len(s) >= Len(suffix) /\ SubSeq(s, Len(s) - Len(suffix) + 1, Len(s)) = suffix

\* the gene association of the notes: "GENE ASSOCIATION" before
\* "GENE_ASSOCIATION", the empty string without either
gpr_of_notes(d) ==
    IF GENE_ASSOCIATION_SPACE \in DOMAIN d THEN d[GENE_ASSOCIATION_SPACE]
    ELSE IF GENE_ASSOCIATION \in DOMAIN d THEN d[GENE_ASSOCIATION]
    ELSE <<>>

notes_gpr(notes_string) == gpr_of_notes(_parse_notes_dict(notes_string))

\* the gene ids of a rule of the notes: the pieces between parentheses and
\* operators, stripped
strip_all(tokens) == [j \in 1..Len(tokens) |-> trim(tokens[j])]

notes_gids(gpr) ==
    LET a == replace(gpr, <<"(">>, <<";">>)
        b == replace(a, <<")">>, <<";">>)
        c == replace(b, <<"o", "r">>, <<";">>)
        e == replace(c, <<"a", "n", "d">>, <<";">>)
    IN  strip_all(split_on(e, ";", <<>>))

\* the loop that creates the missing genes of one rule
RECURSIVE create_missing(_, _, _)
create_missing(genes, gids, f_rep) ==
    IF gids = <<>> THEN genes
    ELSE LET gid == f_apply(f_rep, F_GENE, Head(gids))
         IN  IF \E j \in 1..Len(genes) : genes[j].id = gid
             THEN create_missing(genes, Tail(gids), f_rep)
             ELSE create_missing(Append(genes, [id |-> gid, name |-> gid]),
                                 Tail(gids), f_rep)

\* the genes of a document without FBC information: the loop over the
\* reactions' notes
rule_genes(genes, gpr, f_rep) ==
    IF Len(gpr) > 0 THEN create_missing(genes, notes_gids(gpr), f_rep) ELSE genes

RECURSIVE notes_genes(_, _, _)
notes_genes(genes, reactions, f_rep) ==
    IF reactions = <<>> THEN genes
    ELSE notes_genes(rule_genes(genes, notes_gpr(Head(reactions).notes), f_rep),
                     Tail(reactions), f_rep)

\* the rule of a reaction before the outside parentheses are removed
f_gene_all(tokens) == [j \in 1..Len(tokens) |-> _f_gene(tokens[j])]

\* the rule of the notes with every token of it transformed
notes_rule(gpr, f_rep) ==
    IF Len(gpr) > 0 /\ F_GENE \in f_rep
    THEN join(<<" ">>, f_gene_all(split_on(gpr, " ", <<>>)))
    ELSE gpr

raw_rule(r, f_rep) ==
    IF r.fbc
    THEN (IF r.gpa.type = "none" THEN <<>> ELSE process_association(r.gpa, f_rep))
    ELSE notes_rule(notes_gpr(r.notes), f_rep)

\* the characters of a set taken off both ends of a string
RECURSIVE strip_chars(_, _)
strip_chars(s, chars) ==
    IF s # <<>> /\ Head(s) \in chars THEN strip_chars(Tail(s), chars)
    ELSE IF s # <<>> /\ s[Len(s)] \in chars
    THEN strip_chars(SubSeq(s, 1, Len(s) - 1), chars)
    ELSE s

\* a reader that takes every parenthesis off both ends
remove_every_outside_parenthesis(gpr) == trim(strip_chars(gpr, {"(", ")", " "}))

\* remove outside parenthesis, if any
remove_outside_parenthesis(gpr) ==
    IF startswith(gpr, <<"(">>) /\ endswith(gpr, <<")">>)
    THEN trim(SubSeq(gpr, 2, Len(gpr) - 1))
    ELSE gpr

\* reaction.gene_reaction_rule
gene_reaction_rule(r, f_rep) == remove_outside_parenthesis(raw_rule(r, f_rep))

\* the reaction read from one reaction element, bounds aside
read_reaction(r, bounds, boundary_ids, metabolite_ids, f_rep) ==
    LET reactants == parse_srefs(<<>>, r.reactants, -1, f_rep)
        stoichiometry == parse_srefs(reactants, r.products, 1, f_rep)
    IN  [id |-> f_apply(f_rep, F_REACTION, r.id),
         name |-> r.name,
         lower_bound |-> bounds.lower_bound,
         upper_bound |-> bounds.upper_bound,
         metabolites |-> object_stoichiometry(stoichiometry, boundary_ids,
                                              metabolite_ids, f_rep),
         gene_reaction_rule |-> gene_reaction_rule(r, f_rep)]

ids_of(objects) == {objects[j].id : j \in 1..Len(objects)}

\* the reactions loop and the model it ends with, or the exception of the
\* first reaction whose bounds cannot be read
read_reactions(d, f_rep, metabolites, genes, bounds) ==
    LET failed == {j \in 1..Len(d.reactions) : bounds[j].error # None}
    IN  IF failed # {}
        THEN [status |-> "error",
              error |-> bounds[CHOOSE j \in failed : \A l \in failed : j <= l].error]
        ELSE [status |-> "ok",
              metabolites |-> metabolites,
              genes |-> genes,
              reactions |-> [j \in 1..Len(d.reactions) |->
                                read_reaction(d.reactions[j], bounds[j],
                                              boundary_ids_of(d.species),
                                              ids_of(metabolites), f_rep)]]

\* the genes of the document: its gene products, or without FBC
\* information the genes of the reactions' notes
read_genes(d, f_rep) ==
    IF d.fbc
    THEN [j \in 1..Len(d.geneProducts) |-> read_gene(d.geneProducts[j], f_rep)]
    ELSE notes_genes(<<>>, d.reactions, f_rep)

\* the model, or the exception that ends the call
LONG_SHORT_DIRECTION(type) ==
    CASE type = "maximize" -> "max" [] type = "minimize" -> "min"

\* coefficients[objective_reaction] = value: the dictionary as a sequence
\* of entries in insertion order
coef_set(coefficients, rid, value) ==
    IF \E j \in 1..Len(coefficients) : coefficients[j].reaction = rid
    THEN [j \in 1..Len(coefficients) |->
             IF coefficients[j].reaction = rid
             THEN [reaction |-> rid, value |-> value] ELSE coefficients[j]]
    ELSE Append(coefficients, [reaction |-> rid, value |-> value])

\* set_objective(cobra_model, coefficients): a new linear objective with
\* these coefficients, which maximizes
set_objective(solver, coefficients) ==
    [coefficients |-> coefficients, direction |-> "max"]

\* cobra_model.solver.objective.direction = obj_direction
set_direction(solver, obj_direction) == [solver EXCEPT !.direction = obj_direction]

\* a reader that sets the direction before it installs the coefficients
install_direction_first(solver, coefficients, obj_direction) ==
    set_objective(set_direction(solver, obj_direction), coefficients)

\* the two statements that install the objective
install_objective(solver, coefficients, obj_direction) ==
    set_direction(set_objective(solver, coefficients), obj_direction)

\* the objective of a new model
NewSolver == [coefficients |-> <<>>, direction |-> "max"]

\* the loop over the flux objectives of the active objective
RECURSIVE flux_objectives(_, _, _, _)
flux_objectives(coefficients, fluxes, rids, f_rep) ==
    IF fluxes = <<>> THEN [error |-> None, coefficients |-> coefficients]
    ELSE IF f_apply(f_rep, F_REACTION, Head(fluxes).reaction) \notin rids
    THEN [error |-> "CobraSBMLError", coefficients |-> coefficients]
    ELSE flux_objectives(
             coef_set(coefficients, f_apply(f_rep, F_REACTION, Head(fluxes).reaction),
                      Head(fluxes).coefficient),
             Tail(fluxes), rids, f_rep)

\* whether the list has an objective of this id, and the objective
has_objective(objectives, obj_id) ==
    \E j \in 1..Len(objectives.list) : objectives.list[j].id = obj_id
getObjective(objectives, obj_id) ==
    objectives.list[CHOOSE j \in 1..Len(objectives.list) :
                        /\ objectives.list[j].id = obj_id
                        /\ \A l \in 1..(j - 1) : objectives.list[l].id # obj_id]

\* the branch of the active objective: its direction and coefficients,
\* installed once
active_objective(obj, rids, f_rep) ==
    IF obj.type \notin {"maximize", "minimize"}
    THEN [error |-> "KeyError"]
    ELSE IF flux_objectives(<<>>, obj.fluxObjectives, rids, f_rep).error # None
    THEN [error |-> "CobraSBMLError"]
    ELSE [error |-> None,
          obj_direction |-> LONG_SHORT_DIRECTION(obj.type),
          coefficients |->
              flux_objectives(<<>>, obj.fluxObjectives, rids, f_rep).coefficients,
          solver |-> install_objective(
              NewSolver,
              flux_objectives(<<>>, obj.fluxObjectives, rids, f_rep).coefficients,
              LONG_SHORT_DIRECTION(obj.type))]

\* the objective of a document with FBC information
fbc_objective(objectives, rids, f_rep) ==
    IF ~objectives.present \/ Len(objectives.list) = 0
          \/ objectives.activeObjective = <<>>
    THEN [error |-> None, obj_direction |-> "max", coefficients |-> <<>>,
          solver |-> NewSolver]
    ELSE IF ~has_objective(objectives, objectives.activeObjective)
    THEN [error |-> "AttributeError"]
    ELSE active_objective(getObjective(objectives, objectives.activeObjective),
                          rids, f_rep)

\* the legacy loop over the reactions: the kinetic law that is looked at is
\* that of r, the element the loop over the reactions ended with
RECURSIVE klaw_objective(_, _, _, _, _)
klaw_objective(coefficients, reactions, r, rids, f_rep) ==
    IF reactions = <<>>
    THEN [error |-> None, obj_direction |-> "max", coefficients |-> coefficients,
          solver |-> NewSolver]
    ELSE IF ~Head(reactions).kineticLaw.isSet
    THEN klaw_objective(coefficients, Tail(reactions), r, rids, f_rep)
    ELSE IF ~r.kineticLaw.isSet
    THEN [error |-> "AttributeError"]
    ELSE IF r.kineticLaw.OBJECTIVE_COEFFICIENT = <<>>
    THEN klaw_objective(coefficients, Tail(reactions), r, rids, f_rep)
    ELSE IF f_apply(f_rep, F_REACTION, Head(reactions).id) \notin rids
    THEN [error |-> "CobraSBMLError"]
    ELSE klaw_objective(
             coef_set(coefficients, f_apply(f_rep, F_REACTION, Head(reactions).id),
                      r.kineticLaw.OBJECTIVE_COEFFICIENT[1]),
             Tail(reactions), r, rids, f_rep)

read_objective(d, rids, f_rep) ==
    IF d.fbc THEN fbc_objective(d.objectives, rids, f_rep)
    ELSE IF d.reactions = <<>>
    THEN [error |-> None, obj_direction |-> "max", coefficients |-> <<>>,
          solver |-> NewSolver]
    ELSE klaw_objective(<<>>, d.reactions, d.reactions[Len(d.reactions)], rids, f_rep)

\* the model with its objective, or the exception raised while the
\* objective is read
with_objective(m, objective) ==
    IF m.status # "ok" THEN m
    ELSE IF objective.error # None
    THEN [status |-> "error", error |-> objective.error]
    ELSE [status |-> "ok",
          metabolites |-> m.metabolites,
          genes |-> m.genes,
          reactions |-> m.reactions,
          objective |-> install_objective(objective.solver, objective.coefficients,
                                          objective.obj_direction)]

reactions_and_objective(d, f_rep, m) ==
    IF m.status # "ok" THEN m
    ELSE with_objective(m, read_objective(d, ids_of(m.reactions), f_rep))

_sbml_to_model(d, f_rep) ==
    IF ~d.model
    THEN [status |-> "error", error |-> "CobraSBMLError"]
    ELSE reactions_and_objective(d, f_rep,
             read_reactions(d, f_rep,
                        [j \in 1..Len(d.species) |-> read_species(d.species[j], f_rep)],
                        read_genes(d, f_rep),
                        [j \in 1..Len(d.reactions) |->
                            read_bounds(d.reactions[j], d.parameters)]))

(***************************************************************************)
(* The entry points                                                        *)
(***************************************************************************)
\* the document of a file name, string or file handle, or the exception
\* raised for any other input
_get_doc_from_filename(filename, d) ==
    IF filename.format \in {"string", "handle"}
    THEN [status |-> "ok", doc |-> d]
    ELSE [status |-> "error", error |-> "CobraSBMLError"]

returned(value) == [outcome |-> "returned", value |-> value]
raised(error) == [outcome |-> "raised", error |-> error]

\* a handler that lets the exception through as it is
reraise(error) == raised(error)

\* except Exception: raise CobraSBMLError(...)
except_Exception(error) == raised("CobraSBMLError")

\* the try block's outcome for the value or exception of a call
try_except(m) ==
    IF m.status = "error" THEN except_Exception(m.error) ELSE returned(m)

read_sbml_model(filename, d, f_rep) ==
    IF _get_doc_from_filename(filename, d).status = "error"
    THEN try_except(_get_doc_from_filename(filename, d))
    ELSE try_except(_sbml_to_model(d, f_rep))

VALIDATOR == "validator"
WARNINGS == "warnings"
OTHER_GROUP == "other"
SBML_ERRORS == "SBML errors"

\* the keys validate adds to the error map with use_libsbml
LibsbmlKeys == {"SBML_FATAL", "SBML ERROR", "SBML_SCHEMA_ERROR", "SBML_WARNING"}

\* the error map at the start of validate
new_errors(use_libsbml) ==
    [key \in {VALIDATOR, WARNINGS, OTHER_GROUP, SBML_ERRORS}
                \cup (IF use_libsbml THEN LibsbmlKeys ELSE {}) |-> <<>>]

\* the group validate files a diagnostic of the given severity under
\* (None: the diagnostic is not recorded)
group_of(sev) ==
    CASE sev = "FATAL" -> "SBML_FATAL"
      [] sev = "ERROR" -> "SBML_ERROR"
      [] sev = "SCHEMA_ERROR" -> "SBML_SCHEMA_ERROR"
      [] sev = "WARNING" -> "SBML_WARNING"
      [] OTHER -> None

\* the loop over the diagnostics of the external check: err() appends to
\* errors[group], and errors[group] of a missing key raises KeyError
RECURSIVE record_diagnostics(_, _)
record_diagnostics(errors, diagnostics) ==
    IF diagnostics = <<>> THEN [status |-> "ok", errors |-> errors]
    ELSE LET error_group == group_of(Head(diagnostics))
         IN  IF error_group = None THEN record_diagnostics(errors, Tail(diagnostics))
             ELSE IF error_group \notin DOMAIN errors
             THEN [status |-> "error", error |-> "KeyError"]
             ELSE record_diagnostics([errors EXCEPT ![error_group] = Append(@, Head(diagnostics))],
                                     Tail(diagnostics))

\* the end of validate: the model with the error map, or None with the
\* exception's message filed under "SBML errors" or "other"
validate_result(m, errors) ==
    IF m.status = "ok" THEN returned([model |-> m, errors |-> errors])
    ELSE IF m.error = "CobraSBMLError"
    THEN returned([model |-> NoModel,
                   errors |-> [errors EXCEPT ![SBML_ERRORS] = Append(@, m.error)]])
    ELSE returned([model |-> NoModel,
                   errors |-> [errors EXCEPT ![OTHER_GROUP] = Append(@, m.error)]])

\* validate after the external check
validate_checked(d, checked) ==
    IF checked.status = "error" THEN raised(checked.error)
    ELSE validate_result(_sbml_to_model(d, {}), checked.errors)

\* validate_sbml_model: the pair returned, or the exception raised; the
\* diagnostics are what the external check reports for the document
validate_sbml_model(filename, d, use_libsbml, diagnostics) ==
    IF _get_doc_from_filename(filename, d).status = "error"
    THEN raised(_get_doc_from_filename(filename, d).error)
    ELSE IF ~d.model THEN raised("CobraSBMLError")
    ELSE validate_checked(d, IF use_libsbml
                             THEN record_diagnostics(new_errors(use_libsbml), diagnostics)
                             ELSE [status |-> "ok", errors |-> new_errors(use_libsbml)])

(***************************************************************************)
(* Reading foreign documents: a document is put together element by        *)
(* element, then handed to _sbml_to_model, read_sbml_model or              *)
(* validate_sbml_model.                                                    *)
(***************************************************************************)
X_ID == <<"x">>
MX_ID == M_PREFIX \o <<"x">>

DigitChars == <<"1", "2", "3", "4", "5", "6", "7", "8", "9">>

MaxSpecies == 2
MaxDocReactions == 1

MY_ID == M_PREFIX \o <<"y">>
MZ_ID == M_PREFIX \o <<"z">>
SpeciesIds == <<MX_ID, MY_ID>>

LB_ID == <<"l", "b">>
UB_ID == <<"u", "b">>

NV_ID == <<"n", "v">>
NC_ID == <<"n", "c">>
ABSENT_ID == <<"n", "o">>

DocParameter(pid, value) ==
    [id |-> pid, value |-> value, isSetValue |-> TRUE, constant |-> TRUE,
     sbo |-> NoneStr, units |-> None]

\* the parameters of a document with FBC information: two constant bounds,
\* a constant parameter without value and a parameter that is not constant
DocParameters ==
    <<DocParameter(LB_ID, -10), DocParameter(UB_ID, 10),
      [DocParameter(NV_ID, 0) EXCEPT !.isSetValue = FALSE],
      [DocParameter(NC_ID, 5) EXCEPT !.constant = FALSE]>>

\* a document without model element, one with FBC and one without
EmptyDocs ==
    {[status |-> "ok", model |-> has_model, fbc |-> has_fbc, unitDefinitions |-> <<>>,
      parameters |-> IF has_fbc THEN DocParameters ELSE <<>>,
      species |-> <<>>, geneProducts |-> <<>>,
      objectives |-> [present |-> has_fbc, activeObjective |-> <<>>, list |-> <<>>],
      reactions |-> <<>>] :
        <<has_model, has_fbc>> \in {<<FALSE, FALSE>>, <<TRUE, TRUE>>, <<TRUE, FALSE>>}}

\* how a reaction element states its bounds: with both FBC attributes, with
\* the attributes unset (the library hands back None, or the empty string),
\* with a lower bound parameter that has no value, an upper bound parameter
\* that is not constant or one that the document lacks, with a kinetic law
\* that holds both parameters or the lower one only, or not at all
BoundForms(has_fbc) ==
    IF has_fbc
    THEN {"fbc", "unset_None", "unset_empty", "no_value", "not_constant", "absent"}
    ELSE {"klaw", "klaw_lower", "none"}

lower_of(form) ==
    CASE form \in {"fbc", "not_constant", "absent"} -> LB_ID
      [] form = "no_value" -> NV_ID
      [] form = "unset_empty" -> <<>>
      [] form \in {"unset_None", "klaw", "klaw_lower", "none"} -> NoneStr

upper_of(form) ==
    CASE form \in {"fbc", "no_value"} -> UB_ID
      [] form = "not_constant" -> NC_ID
      [] form = "absent" -> ABSENT_ID
      [] form = "unset_empty" -> <<>>
      [] form \in {"unset_None", "klaw", "klaw_lower", "none"} -> NoneStr

NOTE_PARENS == <<"<", "p", ">", "G", "E", "N", "E", "_", "A", "S", "S", "O", "C", "I", "A", "T", "I", "O", "N", ":", " ", "(", "g", "1", " ", "a", "n", "d", " ", "g", "2", ")", "<", "/", "p", ">">>
NOTE_PLAIN == <<"<", "p", ">", "G", "E", "N", "E", " ", "A", "S", "S", "O", "C", "I", "A", "T", "I", "O", "N", ":", " ", "g", "1", " ", "a", "n", "d", " ", "g", "2", "<", "/", "p", ">">>

\* the notes of a reaction element: none, the association of the legacy
\* scenario, or an association without parentheses
NOTE_GROUPS == <<"<", "p", ">", "G", "E", "N", "E", "_", "A", "S", "S", "O", "C", "I", "A", "T", "I", "O", "N", ":", " ", "(", "g", "1", ")", " ", "o", "r", " ", "(", "g", "2", ")", "<", "/", "p", ">">>

\* (the association of the notes is read for elements without FBC
\* information only)
ReactionNotes(has_fbc) ==
    IF has_fbc THEN {<<>>} ELSE {<<>>, NOTE_PARENS, NOTE_PLAIN, NOTE_GROUPS}

\* the gene product association of a reaction element with FBC information:
\* none, one reference, one and-node, or an or-node of two and-nodes (the
\* association is only read after the bounds were, so it is varied for the
\* elements whose bounds are stated)
GpaChoices(form) ==
    IF form = "fbc"
    THEN {NoAssociation,
          GeneProductRef(G1),
          FbcAnd(<<GeneProductRef(G1), GeneProductRef(G2)>>),
          FbcOr(<<FbcAnd(<<GeneProductRef(G1), GeneProductRef(G2)>>),
                  FbcAnd(<<GeneProductRef(G2), GeneProductRef(G3)>>)>>)}
    ELSE {NoAssociation}

sref(sid, n) == [species |-> sid, stoichiometry |-> n, constant |-> TRUE]

\* the species references of a reaction element: none; the first species on
\* both sides and the others as products; a species the document lacks
SrefChoices(species) ==
    {[reactants |-> <<>>, products |-> <<>>]}
    \cup (IF species = <<>> THEN {}
          ELSE {[reactants |-> <<sref(species[1].id, 1)>>,
                 products |-> [j \in 1..Len(species) |->
                                  sref(species[j].id, IF j = 1 THEN 3 ELSE 2)]],
                [reactants |-> <<sref(MZ_ID, 1)>>,
                 products |-> <<sref(species[1].id, 1)>>]})

DocReactionElement(j, has_fbc, form, srefs, notes_string, gpa) ==
    [id |-> R_PREFIX \o <<"r", DigitChars[j]>>,
     name |-> <<>>,
     fast |-> FALSE,
     reversible |-> TRUE,
     reactants |-> srefs.reactants,
     products |-> srefs.products,
     fbc |-> has_fbc,
     lowerFluxBound |-> lower_of(form),
     upperFluxBound |-> upper_of(form),
     kineticLaw |-> IF form = "klaw"
                    THEN [isSet |-> TRUE, LOWER_BOUND |-> <<-10>>, UPPER_BOUND |-> <<10>>,
                          OBJECTIVE_COEFFICIENT |-> <<>>]
                    ELSE IF form = "klaw_lower"
                    THEN [isSet |-> TRUE, LOWER_BOUND |-> <<-10>>, UPPER_BOUND |-> <<>>,
                          OBJECTIVE_COEFFICIENT |-> <<>>]
                    ELSE NoKineticLaw,
     gpa |-> gpa,
     notes |-> notes_string]

NoResult == [outcome |-> "none"]

InitRead ==
    /\ pc = "doc"
    /\ f_replace \in {F_REPLACE, {}}
    /\ \/ source = [format |-> "other"] /\ doc = NoDoc
       \/ source \in {[format |-> "string"], [format |-> "handle"]} /\ doc \in EmptyDocs
    /\ cobra_model = NoModel
    /\ read_model = NoModel
    /\ result = NoResult
    /\ IdleIds /\ IdleNotes /\ IdleAnnot /\ IdleGpr

DocSpecies ==
    /\ pc = "doc"
    /\ doc.status = "ok" /\ doc.model
    /\ doc.reactions = <<>>
    /\ Len(doc.species) < MaxSpecies
    /\ Len(doc.species) < Len(SpeciesIds)
    /\ \E boundary \in BOOLEAN :
          doc' = [doc EXCEPT !.species =
                     Append(@, [id |-> SpeciesIds[Len(doc.species) + 1],
                                constant |-> FALSE,
                                boundaryCondition |-> boundary,
                                hasOnlySubstanceUnits |-> FALSE,
                                name |-> <<>>,
                                compartment |-> "c",
                                fbc |-> doc.fbc,
                                fbc_charge |-> NoneInt,
                                fbc_chemicalFormula |-> NoneStr,
                                charge |-> NoneInt,
                                notes |-> <<>>])]
    /\ UNCHANGED <<pc, f_replace, cobra_model, read_model, idVars, notesVars,
                   annotVars, gprVars, apiVars>>

DocReaction ==
    /\ pc = "doc"
    /\ doc.status = "ok" /\ doc.model
    /\ Len(doc.reactions) < MaxDocReactions
    /\ \E form \in BoundForms(doc.fbc), srefs \in SrefChoices(doc.species),
          notes_string \in ReactionNotes(doc.fbc) :
          \E gpa \in GpaChoices(form) :
          doc' = [doc EXCEPT !.reactions =
                     Append(@, DocReactionElement(Len(doc.reactions) + 1, doc.fbc,
                                                  form, srefs, notes_string, gpa))]
    /\ UNCHANGED <<pc, f_replace, cobra_model, read_model, idVars, notesVars,
                   annotVars, gprVars, apiVars>>

\* _sbml_to_model on the document
SbmlToModel ==
    /\ pc = "doc"
    /\ doc.status = "ok"
    /\ read_model' = _sbml_to_model(doc, f_replace)
    /\ pc' = "read"
    /\ UNCHANGED <<f_replace, cobra_model, doc, idVars, notesVars, annotVars,
                   gprVars, apiVars>>

ReadSbmlModel ==
    /\ pc = "doc"
    /\ result' = read_sbml_model(source, doc, f_replace)
    /\ pc' = "read_returned"
    /\ UNCHANGED <<source, modelVars, idVars, notesVars, annotVars, gprVars>>

\* what the external check reports for a document: a list of severities
Diagnostics ==
    {<<>>, <<"WARNING">>, <<"INFO", "FATAL">>, <<"SCHEMA_ERROR", "WARNING">>,
     <<"WARNING", "ERROR">>}

ValidateSbmlModel ==
    /\ pc = "doc"
    /\ \E use_libsbml \in BOOLEAN, diagnostics \in Diagnostics :
          /\ ~use_libsbml => diagnostics = <<>>
          /\ source' = [format |-> source.format, use_libsbml |-> use_libsbml,
                        diagnostics |-> diagnostics]
          /\ result' = validate_sbml_model(source, doc, use_libsbml, diagnostics)
    /\ pc' = "validated"
    /\ UNCHANGED <<modelVars, idVars, notesVars, annotVars, gprVars>>

NextRead == DocSpecies \/ DocReaction \/ SbmlToModel \/ ReadSbmlModel \/ ValidateSbmlModel

SpecRead == InitRead /\ [][NextRead]_vars

GENE_G1 == <<"g", "1">>
GENE_G2 == <<"g", "2">>
G1_AND_G2 == <<"g", "1", " ", "a", "n", "d", " ", "g", "2">>

\* C14: reading a document that has no FBC gene products and a reaction
\* note GENE_ASSOCIATION: (g1 and g2) yields a model whose genes are exactly
\* g1 and g2 and whose reaction has an association string equivalent to
\* (g1 and g2).
C14_LegacyGeneAssociation ==
    (/\ pc = "read"
     /\ read_model.status = "ok"
     /\ ~doc.fbc
     /\ Len(doc.reactions) = 1
     /\ doc.reactions[1].notes = NOTE_PARENS)
    => /\ ids_of(read_model.genes) = {GENE_G1, GENE_G2}
       /\ read_model.reactions[1].gene_reaction_rule
             \in {G1_AND_G2, <<"(">> \o G1_AND_G2 \o <<")">>,
                  <<"(", " ">> \o G1_AND_G2 \o <<" ", ")">>}

\* a reaction element that states no bounds: no FBC bound references and no
\* kinetic law with both LOWER_BOUND and UPPER_BOUND
states_no_bounds(r) ==
    /\ r.lowerFluxBound \in {NoneStr, <<>>}
    /\ r.upperFluxBound \in {NoneStr, <<>>}
    /\ ~r.kineticLaw.isSet
       \/ r.kineticLaw.LOWER_BOUND = <<>>
       \/ r.kineticLaw.UPPER_BOUND = <<>>

LacksBounds ==
    /\ doc.status = "ok"
    /\ doc.model
    /\ \E j \in 1..Len(doc.reactions) : states_no_bounds(doc.reactions[j])

\* C15: for a document with a reaction that has neither FBC bound
\* references nor a kinetic-law bound pair, read fails with CobraSBMLError,
\* and validate returns (None, errors) with a non-empty "SBML errors"
\* category, without raising.
C15_FatalPath ==
    /\ (pc = "read_returned" /\ LacksBounds) => result = raised("CobraSBMLError")
    /\ (pc = "validated" /\ LacksBounds) =>
          /\ result.outcome = "returned"
          /\ result.value.model = NoModel
          /\ result.value.errors[SBML_ERRORS] # <<>>

\* C16: read returns a model or raises CobraSBMLError, nothing else; every
\* exception raised while loading the document or building the model is
\* turned into CobraSBMLError.
C16_ReadOutcomes ==
    pc = "read_returned" =>
        /\ \/ result.outcome = "returned" /\ result.value.status = "ok"
           \/ result = raised("CobraSBMLError")
        /\ source.format \notin {"string", "handle"} => result = raised("CobraSBMLError")
        /\ (doc.status = "ok" /\ _sbml_to_model(doc, f_replace).status = "error")
              => result = raised("CobraSBMLError")
        /\ (doc.status = "ok" /\ _sbml_to_model(doc, f_replace).status = "ok")
              => result = returned(_sbml_to_model(doc, f_replace))

C16_Witness ==
    /\ pc = "read_returned"
    /\ doc.status = "ok"
    /\ _sbml_to_model(doc, f_replace).status = "error"
    /\ _sbml_to_model(doc, f_replace).error = "AttributeError"
    /\ result = raised("CobraSBMLError")

\* C17: validate never raises: for every source, one without model element
\* and one whose translation fails included, it returns a pair, and when no
\* model can be built the pair is (None, errors) with at least one message
\* in the error map.
C17_ValidateNeverRaises ==
    pc = "validated" =>
        /\ result.outcome = "returned"
        /\ result.value.model = NoModel =>
              \E key \in DOMAIN result.value.errors : result.value.errors[key] # <<>>

\* the net amount of a species in a reaction element: products minus
\* reactants
RECURSIVE amount(_, _)
amount(srefs, sid) ==
    IF srefs = <<>> THEN 0
    ELSE (IF Head(srefs).species = sid THEN Head(srefs).stoichiometry ELSE 0)
            + amount(Tail(srefs), sid)

net_amount(r, sid) == amount(r.products, sid) - amount(r.reactants, sid)

referenced(r) ==
    {r.reactants[i].species : i \in 1..Len(r.reactants)}
        \cup {r.products[i].species : i \in 1..Len(r.products)}

\* C18: after a successful read, no reaction's stoichiometry holds a
\* metabolite whose species element is flagged as boundary condition, none
\* holds a metabolite that the model lacks, and every other reference is
\* kept with the sum of product amounts minus the sum of reactant amounts.
C18_BoundaryAndUnknownDropped ==
    (pc = "read" /\ read_model.status = "ok") =>
        \A j \in 1..Len(doc.reactions) :
            LET mets == read_model.reactions[j].metabolites
                flagged == {f_apply(f_replace, F_SPECIE, doc.species[l].id) :
                               l \in {i \in 1..Len(doc.species) :
                                         doc.species[i].boundaryCondition}}
                known == {f_apply(f_replace, F_SPECIE, doc.species[l].id) :
                             l \in 1..Len(doc.species)}
            IN  /\ \A i \in 1..Len(mets) :
                      mets[i].id \notin flagged /\ mets[i].id \in known
                /\ \A l \in 1..Len(doc.species) :
                      (/\ ~doc.species[l].boundaryCondition
                       /\ doc.species[l].id \in referenced(doc.reactions[j]))
                      => \E i \in 1..Len(mets) :
                            /\ mets[i].id = f_apply(f_replace, F_SPECIE, doc.species[l].id)
                            /\ mets[i].coefficient
                                  = net_amount(doc.reactions[j], doc.species[l].id)

Recorded == {"FATAL", "ERROR", "SCHEMA_ERROR", "WARNING"}

\* the category the map has for a severity
category(sev) ==
    CASE sev = "FATAL" -> "SBML_FATAL"
      [] sev = "ERROR" -> "SBML ERROR"
      [] sev = "SCHEMA_ERROR" -> "SBML_SCHEMA_ERROR"
      [] sev = "WARNING" -> "SBML_WARNING"

\* C20: with external schema checking enabled, validate returns normally
\* and every diagnostic of severity fatal, error, schema-error or warning
\* is in the error-map category of that severity; the categories validator,
\* warnings, other and SBML errors are in the returned map in every case.
C20_ExternalDiagnostics ==
    (/\ pc = "validated"
     /\ source.format \in {"string", "handle"}
     /\ doc.model)
    => /\ result.outcome = "returned"
       /\ {VALIDATOR, WARNINGS, OTHER_GROUP, SBML_ERRORS} \subseteq DOMAIN result.value.errors
       /\ source.use_libsbml =>
             \A i \in 1..Len(source.diagnostics) :
                 source.diagnostics[i] \in Recorded =>
                     \E l \in 1..Len(result.value.errors[category(source.diagnostics[i])]) :
                         result.value.errors[category(source.diagnostics[i])][l]
                             = source.diagnostics[i]

\* a parameter of the document that exists, is constant and carries a value
sound_parameter(pid) ==
    \E l \in 1..Len(doc.parameters) :
        /\ doc.parameters[l].id = pid
        /\ doc.parameters[l].constant
        /\ doc.parameters[l].isSetValue

value_of_parameter(pid) ==
    doc.parameters[CHOOSE l \in 1..Len(doc.parameters) : doc.parameters[l].id = pid].value

\* both bounds of the read reaction are those of the element's two FBC
\* parameters
from_fbc(r, read) ==
    /\ r.fbc
    /\ sound_parameter(r.lowerFluxBound) /\ sound_parameter(r.upperFluxBound)
    /\ read.lower_bound \in Int /\ read.upper_bound \in Int
    /\ read.lower_bound = value_of_parameter(r.lowerFluxBound)
    /\ read.upper_bound = value_of_parameter(r.upperFluxBound)

\* both bounds of the read reaction are those of the element's kinetic law
from_kinetic_law(r, read) ==
    /\ ~r.fbc
    /\ r.kineticLaw.isSet
    /\ r.kineticLaw.LOWER_BOUND # <<>> /\ r.kineticLaw.UPPER_BOUND # <<>>
    /\ read.lower_bound \in Int /\ read.upper_bound \in Int
    /\ read.lower_bound = r.kineticLaw.LOWER_BOUND[1]
    /\ read.upper_bound = r.kineticLaw.UPPER_BOUND[1]

\* neither source gives both bounds of the element
no_source(r) ==
    /\ ~(r.fbc /\ sound_parameter(r.lowerFluxBound) /\ sound_parameter(r.upperFluxBound))
    /\ ~(/\ ~r.fbc
         /\ r.kineticLaw.isSet
         /\ r.kineticLaw.LOWER_BOUND # <<>> /\ r.kineticLaw.UPPER_BOUND # <<>>)

\* C25: every reaction of a model returned by read has both bounds taken
\* either from its two FBC-referenced parameters, each existing, constant
\* and carrying a value, or, only when the reaction has no FBC bound
\* information, from its kinetic-law LOWER_BOUND and UPPER_BOUND pair; when
\* neither source gives both bounds of some reaction the read aborts with
\* an error, and no reaction is given a default bound.
C25_BoundsOnRead ==
    pc = "read_returned" =>
        /\ result.outcome = "returned" =>
              \A j \in 1..Len(doc.reactions) :
                  \/ from_fbc(doc.reactions[j], result.value.reactions[j])
                  \/ from_kinetic_law(doc.reactions[j], result.value.reactions[j])
        /\ (/\ doc.status = "ok" /\ doc.model
            /\ \E j \in 1..Len(doc.reactions) : no_source(doc.reactions[j]))
              => result = raised("CobraSBMLError")

\* the nesting depth after each character of a string: +1 at "(", -1 at ")"
RECURSIVE depth(_, _)
depth(s, n) ==
    IF n = 0 THEN 0
    ELSE depth(s, n - 1) + (IF s[n] = "(" THEN 1 ELSE IF s[n] = ")" THEN -1 ELSE 0)

balanced(s) ==
    /\ depth(s, Len(s)) = 0
    /\ \A n \in 1..Len(s) : depth(s, n) >= 0

\* the first and the last character are one matching pair of parentheses
\* around the whole string
one_outer_pair(s) ==
    /\ Len(s) >= 2
    /\ s[1] = "(" /\ s[Len(s)] = ")"
    /\ balanced(s)
    /\ \A n \in 1..(Len(s) - 1) : depth(s, n) >= 1

\* C26: for every reaction read through the FBC tree path or through the
\* legacy notes path, the stored gene-association string has balanced
\* parentheses, and it is either the string before stripping or, when that
\* string was wrapped in one matching pair of parentheses, what stood
\* between the pair: a "(" and a ")" are removed only when they form one
\* matching pair around the whole expression.
C26_OuterParenthesis ==
    (pc = "read" /\ read_model.status = "ok") =>
        \A j \in 1..Len(doc.reactions) :
            /\ balanced(read_model.reactions[j].gene_reaction_rule)
            /\ \/ read_model.reactions[j].gene_reaction_rule
                      = raw_rule(doc.reactions[j], f_replace)
               \/ /\ one_outer_pair(raw_rule(doc.reactions[j], f_replace))
                  /\ <<"(", " ">> \o read_model.reactions[j].gene_reaction_rule
                         \o <<" ", ")">> = raw_rule(doc.reactions[j], f_replace)

\* a nested rule of the FBC tree that lost its outer pair and kept the
\* inner ones
C26_Witness ==
    /\ pc = "read" /\ read_model.status = "ok"
    /\ Len(doc.reactions) = 1
    /\ doc.reactions[1].gpa.type = "or"
    /\ one_outer_pair(raw_rule(doc.reactions[1], f_replace))
    /\ read_model.reactions[1].gene_reaction_rule
          # raw_rule(doc.reactions[1], f_replace)
    /\ contains(read_model.reactions[1].gene_reaction_rule, <<"(">>)
    /\ ~one_outer_pair(read_model.reactions[1].gene_reaction_rule)

(***************************************************************************)
(* Reading the objective of a document: the reactions are added, the list  *)
(* of objectives of a document with FBC information is set, and the        *)
(* document is handed to _sbml_to_model.                                   *)
(***************************************************************************)
MaxObjReactions == 2

OBJ2_ID == <<"o", "b", "j", "2">>
NO_ID == <<"R", "_", "n", "o">>

ObjReactionId(j) == R_PREFIX \o <<"r", DigitChars[j]>>

\* a reaction element with bounds, and for a document without FBC
\* information the OBJECTIVE_COEFFICIENT of its kinetic law, if any
ObjReactionElement(j, has_fbc, coefficient) ==
    [id |-> ObjReactionId(j), name |-> <<>>, fast |-> FALSE, reversible |-> TRUE,
     reactants |-> <<>>, products |-> <<>>,
     fbc |-> has_fbc,
     lowerFluxBound |-> IF has_fbc THEN LB_ID ELSE NoneStr,
     upperFluxBound |-> IF has_fbc THEN UB_ID ELSE NoneStr,
     kineticLaw |-> IF has_fbc THEN NoKineticLaw
                    ELSE [isSet |-> TRUE, LOWER_BOUND |-> <<-10>>, UPPER_BOUND |-> <<10>>,
                          OBJECTIVE_COEFFICIENT |-> coefficient],
     gpa |-> NoAssociation,
     notes |-> <<>>]

flux(rid, coefficient) == [reaction |-> rid, coefficient |-> coefficient]

\* the flux objectives of an objective: none, one per reaction, two for the
\* first reaction, or one that names a reaction the document lacks
FluxObjectiveChoices(n) ==
    {<<>>, <<flux(NO_ID, 1)>>}
    \cup (IF n = 0 THEN {}
          ELSE {[j \in 1..n |-> flux(ObjReactionId(j), j)],
                <<flux(ObjReactionId(1), 1), flux(ObjReactionId(1), 3)>>})

\* the list of objectives: absent; empty; without active objective;
\* one active objective of either type; two objectives of which the second
\* is active; an active id that names no objective
ObjectiveChoices(n) ==
    {[present |-> FALSE, activeObjective |-> <<>>, list |-> <<>>],
     [present |-> TRUE, activeObjective |-> OBJ_ID, list |-> <<>>],
     [present |-> TRUE, activeObjective |-> <<>>,
      list |-> <<[id |-> OBJ_ID, type |-> "minimize", fluxObjectives |-> <<>>]>>],
     [present |-> TRUE, activeObjective |-> OBJ2_ID,
      list |-> <<[id |-> OBJ_ID, type |-> "maximize", fluxObjectives |-> <<>>]>>]}
    \cup {[present |-> TRUE, activeObjective |-> OBJ_ID,
           list |-> <<[id |-> OBJ_ID, type |-> t, fluxObjectives |-> f]>>] :
              t \in {"maximize", "minimize"}, f \in FluxObjectiveChoices(n)}
    \cup {[present |-> TRUE, activeObjective |-> OBJ2_ID,
           list |-> <<[id |-> OBJ_ID, type |-> "maximize", fluxObjectives |-> <<>>],
                      [id |-> OBJ2_ID, type |-> "minimize", fluxObjectives |-> f]>>] :
              f \in FluxObjectiveChoices(n)}

InitObjective ==
    /\ pc = "obj_doc"
    /\ f_replace \in {F_REPLACE, {}}
    /\ doc \in {e \in EmptyDocs : e.model}
    /\ cobra_model = NoModel
    /\ read_model = NoModel
    /\ IdleIds /\ IdleNotes /\ IdleAnnot /\ IdleGpr /\ IdleApi

AddObjReaction ==
    /\ pc = "obj_doc"
    /\ Len(doc.reactions) < MaxObjReactions
    /\ \E coefficient \in IF doc.fbc THEN {<<>>} ELSE {<<>>, <<1>>, <<2>>} :
          doc' = [doc EXCEPT !.reactions =
                     Append(@, ObjReactionElement(Len(doc.reactions) + 1, doc.fbc,
                                                  coefficient))]
    /\ UNCHANGED <<pc, f_replace, cobra_model, read_model, idVars, notesVars,
                   annotVars, gprVars, apiVars>>

SetObjectives ==
    /\ pc = "obj_doc"
    /\ doc.fbc
    /\ \E objectives \in ObjectiveChoices(Len(doc.reactions)) :
          doc' = [doc EXCEPT !.objectives = objectives]
    /\ pc' = "obj_set"
    /\ UNCHANGED <<f_replace, cobra_model, read_model, idVars, notesVars,
                   annotVars, gprVars, apiVars>>

ReadObjective ==
    /\ pc \in {"obj_doc", "obj_set"}
    /\ read_model' = _sbml_to_model(doc, f_replace)
    /\ pc' = "obj_read"
    /\ UNCHANGED <<f_replace, cobra_model, doc, idVars, notesVars, annotVars,
                   gprVars, apiVars>>

NextObjective == AddObjReaction \/ SetObjectives \/ ReadObjective

SpecObjective == InitObjective /\ [][NextObjective]_vars

\* the document names an active objective that its list holds
HasActive ==
    /\ doc.objectives.present
    /\ doc.objectives.activeObjective # <<>>
    /\ \E j \in 1..Len(doc.objectives.list) :
          doc.objectives.list[j].id = doc.objectives.activeObjective

\* the list of objectives is absent, empty or without active entry
NoActive ==
    \/ ~doc.objectives.present
    \/ doc.objectives.list = <<>>
    \/ doc.objectives.activeObjective = <<>>

Active ==
    doc.objectives.list[CHOOSE j \in 1..Len(doc.objectives.list) :
                            doc.objectives.list[j].id = doc.objectives.activeObjective]

\* the active objective names a reaction id that no reaction of the model
\* has
NamesMissingReaction ==
    /\ HasActive
    /\ \E i \in 1..Len(Active.fluxObjectives) :
          \A j \in 1..Len(doc.reactions) :
              f_apply(f_replace, F_REACTION, doc.reactions[j].id)
                  # f_apply(f_replace, F_REACTION, Active.fluxObjectives[i].reaction)

\* C22: in every successful read of a document with FBC information the
\* returned model's direction is that of the active objective, minimize or
\* maximize, whatever installing the coefficients did to it; the direction
\* is maximize and the coefficient mapping empty when the list of
\* objectives is absent, empty or has no active entry; and a flux objective
\* that names a reaction the model lacks aborts the read.
C22_ObjectiveOnRead ==
    (pc = "obj_read" /\ doc.fbc) =>
        /\ (read_model.status = "ok" /\ HasActive /\ ~NoActive) =>
              read_model.objective.direction
                  = (IF Active.type = "minimize" THEN "min" ELSE "max")
        /\ (read_model.status = "ok" /\ NoActive) =>
              /\ read_model.objective.direction = "max"
              /\ read_model.objective.coefficients = <<>>
        /\ (NamesMissingReaction /\ ~NoActive) => read_model.status = "error"

C22_Witness ==
    /\ pc = "obj_read" /\ doc.fbc
    /\ read_model.status = "ok"
    /\ HasActive /\ ~NoActive
    /\ Active.type = "minimize"
    /\ Len(Active.fluxObjectives) = 2
    /\ Len(read_model.objective.coefficients) = 2
    /\ read_model.objective.direction = "min"

\* the objective coefficient of a reaction of the model that was read
objective_coefficient(rid) ==
    IF \E i \in 1..Len(read_model.objective.coefficients) :
          read_model.objective.coefficients[i].reaction = rid
    THEN read_model.objective.coefficients[
             CHOOSE i \in 1..Len(read_model.objective.coefficients) :
                 read_model.objective.coefficients[i].reaction = rid].value
    ELSE 0

\* C23: when a document without FBC information is read, every reaction
\* whose own kinetic law has an OBJECTIVE_COEFFICIENT parameter has that
\* parameter's value as objective coefficient, and every other reaction
\* has 0, also when the reactions carry different coefficients.
C23_LegacyObjective ==
    (pc = "obj_read" /\ ~doc.fbc /\ read_model.status = "ok") =>
        \A j \in 1..Len(doc.reactions) :
            objective_coefficient(read_model.reactions[j].id)
                = (IF doc.reactions[j].kineticLaw.OBJECTIVE_COEFFICIENT # <<>>
                   THEN doc.reactions[j].kineticLaw.OBJECTIVE_COEFFICIENT[1]
                   ELSE 0)

(***************************************************************************)
(* Reading the species of a document: each species element states its      *)
(* charge and formula in the FBC fields, in the charge attribute or in its *)
(* notes, and the document is handed to _sbml_to_model.                    *)
(***************************************************************************)
MaxDocSpecies == 2

H2O == <<"H", "2", "O">>
CO2 == <<"C", "O", "2">>

\* the notes of a species element
SpeciesNotes ==
    {<<>>,
     paragraph(CHARGE, <<"2">>),
     paragraph(CHARGE, <<"-", "2">>),
     paragraph(CHARGE, <<"n", "a", "n">>),
     paragraph(FORMULA, CO2),
     paragraph(CHARGE, <<"1", "2">>) \o paragraph(FORMULA, CO2)}

\* the species elements of a document with the FBC package (the charge
\* attribute is not part of the levels the package is defined for), and of
\* one without
SpeciesElements(has_fbc) ==
    {[id |-> MX_ID, constant |-> FALSE, boundaryCondition |-> FALSE,
      hasOnlySubstanceUnits |-> FALSE, name |-> <<>>, compartment |-> "c",
      fbc |-> has_fbc,
      fbc_charge |-> e[1], fbc_chemicalFormula |-> e[2], charge |-> e[3],
      notes |-> e[4]] :
        e \in IF has_fbc
               THEN {<<NoneInt, NoneStr, NoneInt, <<>>>>,
                     <<(<<-1>>), H2O, NoneInt, <<>>>>,
                     <<(<<-1>>), NoneStr, NoneInt, paragraph(FORMULA, CO2)>>,
                     <<NoneInt, H2O, NoneInt, paragraph(CHARGE, <<"2">>)>>,
                     <<(<<-1>>), H2O, NoneInt,
                       paragraph(CHARGE, <<"1", "2">>) \o paragraph(FORMULA, CO2)>>}
               ELSE {<<NoneInt, NoneStr, NoneInt, n>> : n \in SpeciesNotes}
                    \cup {<<NoneInt, NoneStr, (<<3>>), n>> :
                             n \in {<<>>, paragraph(CHARGE, <<"2">>),
                                     paragraph(FORMULA, CO2)}}}

InitSpecies ==
    /\ pc = "species_doc"
    /\ f_replace \in {F_REPLACE, {}}
    /\ doc \in {e \in EmptyDocs : e.model}
    /\ cobra_model = NoModel
    /\ read_model = NoModel
    /\ IdleIds /\ IdleNotes /\ IdleAnnot /\ IdleGpr /\ IdleApi

AddSpecies ==
    /\ pc = "species_doc"
    /\ Len(doc.species) < MaxDocSpecies
    /\ \E e \in SpeciesElements(doc.fbc) :
          doc' = [doc EXCEPT !.species =
                     Append(@, [e EXCEPT !.id = @ \o <<DigitChars[Len(doc.species) + 1]>>])]
    /\ UNCHANGED <<pc, f_replace, cobra_model, read_model, idVars, notesVars,
                   annotVars, gprVars, apiVars>>

ReadSpecies ==
    /\ pc = "species_doc"
    /\ read_model' = _sbml_to_model(doc, f_replace)
    /\ pc' = "species_read"
    /\ UNCHANGED <<f_replace, cobra_model, doc, idVars, notesVars, annotVars,
                   gprVars, apiVars>>

NextSpecies == AddSpecies \/ ReadSpecies

SpecSpecies == InitSpecies /\ [][NextSpecies]_vars

\* the value of a note of the element, as it is written there
RECURSIVE note_at(_, _)
note_at(s, key) ==
    IF Len(s) < Len(P_OPEN \o key \o <<":", " ">>) THEN NoneStr
    ELSE IF startswith(s, P_OPEN \o key \o <<":", " ">>)
    THEN LET rest == SubSeq(s, Len(P_OPEN \o key \o <<":", " ">>) + 1, Len(s))
         IN  SubSeq(rest, 1, run_end(rest, 1, UpperCase \cup LowerCase \cup Digits
                                                  \cup {"-", "+"}) - 1)
    ELSE note_at(Tail(s), key)

\* the charge a note states, when it states a number
note_charge(sp) ==
    IF note_at(sp.notes, CHARGE) = <<"2">> THEN <<2>>
    ELSE IF note_at(sp.notes, CHARGE) = <<"1", "2">> THEN <<12>>
    ELSE IF note_at(sp.notes, CHARGE) = <<"-", "2">> THEN <<-2>>
    ELSE NoneInt

\* C21: on read, a metabolite's charge is that of the FBC field when the
\* field is set, otherwise that of the charge attribute when set, otherwise
\* that of the CHARGE note; its formula is that of the FBC field when set,
\* otherwise that of the FORMULA note; a value of a deprecated source is
\* honored, with a warning.
C21_ChargeFormulaSources ==
    (pc = "species_read" /\ read_model.status = "ok") =>
        \A j \in 1..Len(doc.species) :
            /\ doc.species[j].fbc_charge # NoneInt =>
                  read_model.metabolites[j].charge = doc.species[j].fbc_charge
            /\ (doc.species[j].fbc_charge = NoneInt /\ doc.species[j].charge # NoneInt) =>
                  /\ read_model.metabolites[j].charge = doc.species[j].charge
                  /\ "charge attribute" \in read_model.metabolites[j].warnings
            /\ (/\ doc.species[j].fbc_charge = NoneInt
                /\ doc.species[j].charge = NoneInt
                /\ note_charge(doc.species[j]) # NoneInt) =>
                  /\ read_model.metabolites[j].charge = note_charge(doc.species[j])
                  /\ "CHARGE note" \in read_model.metabolites[j].warnings
            /\ doc.species[j].fbc_chemicalFormula # NoneStr =>
                  read_model.metabolites[j].formula = doc.species[j].fbc_chemicalFormula
            /\ (/\ doc.species[j].fbc_chemicalFormula = NoneStr
                /\ note_at(doc.species[j].notes, FORMULA) # NoneStr) =>
                  /\ read_model.metabolites[j].formula
                        = note_at(doc.species[j].notes, FORMULA)
                  /\ "FORMULA note" \in read_model.metabolites[j].warnings

(***************************************************************************)
(* The round-trip specification: a model is built, written to a document   *)
(* with _model_to_sbml, and the document is read back with _sbml_to_model  *)
(* under the same identifier configuration.                                *)
(***************************************************************************)
MaxMetabolites == 2
MaxGenes == 1
MaxReactions == 2

MetaboliteChoices ==
    {[id |-> X_ID, name |-> <<"X">>, compartment |-> "c", charge |-> <<-2>>,
      formula |-> <<"C", "6", "H", "1", "2", "O", "6">>],
     [id |-> MX_ID, name |-> <<>>, compartment |-> "c", charge |-> NoneInt,
      formula |-> NoneStr]}

GeneChoices ==
    {[id |-> <<"g">>, name |-> <<"n">>],
     [id |-> <<"a", ".", "b">>, name |-> <<>>]}

\* (lower bound, upper bound) of a reaction: the defaults, 0, values inside
\* and outside the defaults, and a fixed flux at the default upper bound
BoundPairs ==
    {<<LOWER_BOUND, UPPER_BOUND>>, <<0, 5>>, <<LOWER_BOUND, 0>>,
     <<-2000, 2000>>, <<UPPER_BOUND, UPPER_BOUND>>}

\* the id of the j-th reaction; the second one begins with the prefix itself
ReactionId(j) == IF j = 2 THEN R_PREFIX \o <<"r">> ELSE <<"r", DigitChars[j]>>

\* a reaction's metabolites: none, or every metabolite of the model, the
\* first one consumed and the others produced
StoichChoices(metabolites) ==
    {<<>>,
     [j \in 1..Len(metabolites) |->
         [id |-> metabolites[j].id, coefficient |-> IF j = 1 THEN -1 ELSE 2]]}

Init ==
    /\ pc = "build"
    /\ f_replace \in {F_REPLACE, {}}
    /\ cobra_model = [status |-> "ok", metabolites |-> <<>>, genes |-> <<>>,
                      reactions |-> <<>>]
    /\ doc = NoDoc
    /\ read_model = NoModel
    /\ IdleIds /\ IdleNotes /\ IdleAnnot /\ IdleGpr /\ IdleApi

AddMetabolite ==
    /\ pc = "build"
    /\ cobra_model.genes = <<>> /\ cobra_model.reactions = <<>>
    /\ Len(cobra_model.metabolites) < MaxMetabolites
    /\ \E m \in MetaboliteChoices :
          /\ m.id \notin ids_of(cobra_model.metabolites)
          /\ cobra_model' = [cobra_model EXCEPT !.metabolites = Append(@, m)]
    /\ UNCHANGED <<pc, f_replace, doc, read_model, idVars, notesVars, annotVars, gprVars, apiVars>>

AddGene ==
    /\ pc = "build"
    /\ cobra_model.reactions = <<>>
    /\ Len(cobra_model.genes) < MaxGenes
    /\ \E g \in GeneChoices :
          /\ g.id \notin ids_of(cobra_model.genes)
          /\ cobra_model' = [cobra_model EXCEPT !.genes = Append(@, g)]
    /\ UNCHANGED <<pc, f_replace, doc, read_model, idVars, notesVars, annotVars, gprVars, apiVars>>

AddReaction ==
    /\ pc = "build"
    /\ Len(cobra_model.reactions) < MaxReactions
    /\ \E b \in BoundPairs, st \in StoichChoices(cobra_model.metabolites) :
          cobra_model' =
              [cobra_model EXCEPT !.reactions =
                  Append(@, [id |-> ReactionId(Len(cobra_model.reactions) + 1),
                             name |-> <<>>,
                             lower_bound |-> b[1],
                             upper_bound |-> b[2],
                             metabolites |-> st])]
    /\ UNCHANGED <<pc, f_replace, doc, read_model, idVars, notesVars, annotVars, gprVars, apiVars>>

Write ==
    /\ pc = "build"
    /\ \E units \in BOOLEAN : doc' = _model_to_sbml(cobra_model, f_replace, units)
    /\ pc' = "written"
    /\ UNCHANGED <<f_replace, cobra_model, read_model, idVars, notesVars, annotVars, gprVars, apiVars>>

Read ==
    /\ pc = "written"
    /\ doc.status = "ok"
    /\ read_model' = _sbml_to_model(doc, f_replace)
    /\ pc' = "read"
    /\ UNCHANGED <<f_replace, cobra_model, doc, idVars, notesVars, annotVars, gprVars, apiVars>>

Next == AddMetabolite \/ AddGene \/ AddReaction \/ Write \/ Read

Spec == Init /\ [][Next]_vars

Written == pc \in {"written", "read"} /\ doc.status = "ok"
ReadBack == pc = "read" /\ read_model.status = "ok"

\* a dictionary of metabolite coefficients as a set of (id, coefficient)
coefficients(metabolites) ==
    {<<metabolites[j].id, metabolites[j].coefficient>> : j \in 1..Len(metabolites)}

\* C1: after write followed by read, the reaction with r's id has the same
\* lower bound and the same upper bound as r, for every reaction r of the
\* model and any mix of bound values.
C1_BoundsRoundTrip ==
    ReadBack =>
        \A j \in 1..Len(cobra_model.reactions) :
            \E k \in 1..Len(read_model.reactions) :
                /\ read_model.reactions[k].id = cobra_model.reactions[j].id
                /\ read_model.reactions[k].lower_bound = cobra_model.reactions[j].lower_bound
                /\ read_model.reactions[k].upper_bound = cobra_model.reactions[j].upper_bound

\* C2: in every document the writer produces, cobra_default_lb has the
\* value of the configured default lower bound, cobra_default_ub the value
\* of the configured default upper bound, and cobra_0_bound the value 0.
C2_SharedParameterValues ==
    Written =>
        /\ has_parameter(doc.parameters, LOWER_BOUND_ID)
        /\ getParameter(doc.parameters, LOWER_BOUND_ID).value = LOWER_BOUND
        /\ has_parameter(doc.parameters, UPPER_BOUND_ID)
        /\ getParameter(doc.parameters, UPPER_BOUND_ID).value = UPPER_BOUND
        /\ has_parameter(doc.parameters, ZERO_BOUND_ID)
        /\ getParameter(doc.parameters, ZERO_BOUND_ID).value = 0

BoundTypes == {LOWER_BOUND_ATTR, UPPER_BOUND_ATTR}

\* the flux bound reference the writer stored for reaction j
bound_ref(j, bound_type) ==
    IF bound_type = LOWER_BOUND_ATTR
    THEN doc.reactions[j].lowerFluxBound ELSE doc.reactions[j].upperFluxBound

\* <written reaction id>_<bound kind>
own_pid(j, bound_type) == doc.reactions[j].id \o <<"_">> \o bound_type

\* the parameters of the document with the given id
with_id(pid) == {l \in 1..Len(doc.parameters) : doc.parameters[l].id = pid}

\* exactly one parameter with the reaction's own id, a constant flux bound
\* of the given value
OwnParameter(j, bound_type, value) ==
    /\ bound_ref(j, bound_type) = own_pid(j, bound_type)
    /\ Cardinality(with_id(own_pid(j, bound_type))) = 1
    /\ \A l \in with_id(own_pid(j, bound_type)) :
          /\ doc.parameters[l].value = value
          /\ doc.parameters[l].constant
          /\ doc.parameters[l].sbo = SBO_FLUX_BOUND

\* a shared parameter is referenced and no parameter of the reaction's own
SharedParameter(j, bound_type, pid) ==
    /\ bound_ref(j, bound_type) = pid
    /\ with_id(own_pid(j, bound_type)) = {}

\* C3 as stated: the shared default id of the same bound kind when the
\* bound equals that kind's default, the shared zero id when it is 0, and
\* otherwise one new constant parameter <written reaction id>_<bound kind>
\* with the bound's value and SBO:0000625.
C3_AsStated ==
    Written =>
        \A j \in 1..Len(doc.reactions), bt \in BoundTypes :
            LET value == getattr(cobra_model.reactions[j], bt)
                default == IF bt = LOWER_BOUND_ATTR THEN LOWER_BOUND ELSE UPPER_BOUND
                default_id == IF bt = LOWER_BOUND_ATTR
                              THEN LOWER_BOUND_ID ELSE UPPER_BOUND_ID
            IN  IF value = default THEN SharedParameter(j, bt, default_id)
                ELSE IF value = 0 THEN SharedParameter(j, bt, ZERO_BOUND_ID)
                ELSE OwnParameter(j, bt, value)

\* C3 amended: for either bound kind, cobra_default_lb when the bound equals
\* the configured default lower bound, otherwise cobra_0_bound when it is
\* 0, otherwise cobra_default_ub when it equals the configured default upper
\* bound, and in these cases no parameter is created; otherwise exactly one
\* new constant parameter <written reaction id>_<bound kind> with the
\* bound's value and SBO:0000625.
C3_CreateBound ==
    Written =>
        \A j \in 1..Len(doc.reactions), bt \in BoundTypes :
            LET value == getattr(cobra_model.reactions[j], bt)
            IN  IF value = LOWER_BOUND THEN SharedParameter(j, bt, LOWER_BOUND_ID)
                ELSE IF value = 0 THEN SharedParameter(j, bt, ZERO_BOUND_ID)
                ELSE IF value = UPPER_BOUND THEN SharedParameter(j, bt, UPPER_BOUND_ID)
                ELSE OwnParameter(j, bt, value)

C3_Witness ==
    /\ Written
    /\ \E j \in 1..Len(doc.reactions) :
          /\ cobra_model.reactions[j].lower_bound = UPPER_BOUND
          /\ doc.reactions[j].lowerFluxBound = UPPER_BOUND_ID
    /\ \E j \in 1..Len(doc.reactions), bt \in BoundTypes :
          /\ getattr(cobra_model.reactions[j], bt) \notin {LOWER_BOUND, 0, UPPER_BOUND}
          /\ OwnParameter(j, bt, getattr(cobra_model.reactions[j], bt))
    /\ \E j \in 1..Len(doc.reactions), bt \in BoundTypes :
          /\ getattr(cobra_model.reactions[j], bt) = 0
          /\ bound_ref(j, bt) = ZERO_BOUND_ID

\* the reaction bounds that are neither a default nor 0
CustomBounds ==
    {<<j, bt>> \in (1..Len(cobra_model.reactions)) \X BoundTypes :
        getattr(cobra_model.reactions[j], bt) \notin {LOWER_BOUND, 0, UPPER_BOUND}}

AllAtDefaultLowerBound ==
    \A j \in 1..Len(cobra_model.reactions) :
        cobra_model.reactions[j].lower_bound = LOWER_BOUND

\* C4: the document holds exactly three shared parameters plus one
\* parameter per reaction bound that is neither a default nor 0; when every
\* reaction's lower bound is the configured default, exactly one parameter
\* has the shared lower-bound id, every reaction references it as its lower
\* flux bound, and no per-reaction lower-bound parameter exists.
C4_BoundDeduplication ==
    Written =>
        /\ Cardinality(with_id(LOWER_BOUND_ID)) = 1
        /\ Cardinality(with_id(UPPER_BOUND_ID)) = 1
        /\ Cardinality(with_id(ZERO_BOUND_ID)) = 1
        /\ Len(doc.parameters) = 3 + Cardinality(CustomBounds)
        /\ AllAtDefaultLowerBound =>
              \A j \in 1..Len(doc.reactions) :
                  /\ doc.reactions[j].lowerFluxBound = LOWER_BOUND_ID
                  /\ with_id(own_pid(j, LOWER_BOUND_ATTR)) = {}

C4_Witness ==
    /\ Written
    /\ Len(doc.reactions) >= 2
    /\ AllAtDefaultLowerBound
    /\ \A j \in 1..Len(doc.reactions) : doc.reactions[j].lowerFluxBound = LOWER_BOUND_ID
    /\ Cardinality(with_id(LOWER_BOUND_ID)) = 1

\* C5: after write followed by read with the same identifier configuration
\* (the default one or the empty one), the reaction with r's id has exactly
\* r's metabolites with the same signed coefficients.
C5_StoichiometryRoundTrip ==
    ReadBack =>
        \A j \in 1..Len(cobra_model.reactions) :
            \E k \in 1..Len(read_model.reactions) :
                /\ read_model.reactions[k].id = cobra_model.reactions[j].id
                /\ coefficients(read_model.reactions[k].metabolites)
                      = coefficients(cobra_model.reactions[j].metabolites)

\* C6: after write followed by read with the default identifier
\* configuration, the model holds a gene with g's id and g's name, for
\* every gene g of the model (ids with "." and empty names included).
C6_GeneRoundTrip ==
    (ReadBack /\ f_replace = F_REPLACE) =>
        \A j \in 1..Len(cobra_model.genes) :
            \E k \in 1..Len(read_model.genes) :
                /\ read_model.genes[k].id = cobra_model.genes[j].id
                /\ read_model.genes[k].name = cobra_model.genes[j].name

\* C19: writing completes for both values of units: when set the document
\* has exactly one flux unit definition, when not set it has no unit
\* definition and no bound parameter carries units; with zero reactions and
\* with one or more.
C19_WriteCompletes ==
    pc = "written" =>
        \A units \in BOOLEAN :
            doc = _model_to_sbml(cobra_model, f_replace, units) =>
                /\ doc.status = "ok"
                /\ units => doc.unitDefinitions = <<UNITS_FLUX_ID>>
                /\ ~units =>
                      /\ doc.unitDefinitions = <<>>
                      /\ \A j \in 1..Len(doc.parameters) : doc.parameters[j].units = None

====
